---- MODULE Spec2Model ----
(***************************************************************************)
(* CodeRoast: the evidence-locked patch pipeline (fix-it-agent.ts), the    *)
(* Evidence Guard (evidence-guard-agent.ts) and the apply step             *)
(* (fix-apply-agent.ts).                                                   *)
(*                                                                         *)
(* A text is a sequence of lines.  The code looks at a line only through   *)
(* startsWith tests, the hunk-header regex and the path after "--- " or    *)
(* "+++ ", so a line is a record [k, p, n]: k is its lexical class, p the  *)
(* raw path of a file header, n the oldStart of a hunk header or the       *)
(* content of a body line.                                                 *)
(*   fence   "```..."            diffgit "diff --git ..."                  *)
(*   index   "index ..."         old     "--- <p>"                         *)
(*   new     "+++ <p>"           hunk    "@@ -n,.. +.. @@"                 *)
(*   badhunk "@@ <garbage>"      ctx     " <content>"                      *)
(*   add     "+<content>"        rem     "-<content>"                      *)
(*   text    any other non-blank line (commentary)                         *)
(*   blank   "" or whitespace    nonl    "\ No newline at end of file"     *)
(***************************************************************************)
EXTENDS Integers, Sequences, FiniteSets, TLC

\* ------------------------------------------------------------------ bounds
MaxLine == 4
MaxBody == 2
MaxIssues == 3

\* ------------------------------------------------------- program constants
MAX_FIXES == 2
LONG_FUNCTION_LOC == 50
FIXABLE_SIGNALS == {"longFunctions", "duplicateBlocks"}

\* ------------------------------------------------------------------- lines
L(k, p, n) == [k |-> k, p |-> p, n |-> n]
Fence == L("fence", "", 0)
DiffGit == L("diffgit", "", 0)
Index == L("index", "", 0)
Old(p) == L("old", p, 0)
New(p) == L("new", p, 0)
HunkHdr(n) == L("hunk", "", n)
BadHunk == L("badhunk", "", 0)
\* "@@ see below @@ -n +n @@": the line starts with "@@ " and the pattern of
\* parseHunkHeader, which is not anchored at the start, matches further right.
JunkHunk(n) == L("hunk", "see below ", n)
Ctx == L("ctx", "", 0)
Add == L("add", "", 0)
Rem == L("rem", "", 0)
Text == L("text", "", 0)
Blank == L("blank", "", 0)

\* line.startsWith("+"), ("-"), (" ")
StartsPlus(line) == line.k \in {"add", "new"}
StartsMinus(line) == line.k \in {"rem", "old"}
StartsSpace(line) == line.k = "ctx"

Min(a, b) == IF a < b THEN a ELSE b

\* String.prototype.trim on a text: whitespace-only lines at both ends go,
\* and the first remaining line loses its leading blanks, so a leading
\* context line " x" becomes the plain line "x".
RECURSIVE DropLeadingBlank(_)
DropLeadingBlank(text) ==
  IF text = <<>> \/ text[1].k # "blank" THEN text
  ELSE DropLeadingBlank(Tail(text))

RECURSIVE DropTrailingBlank(_)
DropTrailingBlank(text) ==
  IF text = <<>> \/ text[Len(text)].k # "blank" THEN text
  ELSE DropTrailingBlank(SubSeq(text, 1, Len(text) - 1))

Trim(text) ==
  LET t == DropTrailingBlank(DropLeadingBlank(text)) IN
  IF t # <<>> /\ t[1].k = "ctx"
  THEN <<L("text", "", t[1].n)>> \o Tail(t)
  ELSE t

\* ------------------------------------------------------------- diff parser
NormalizeDiffPath(p) ==
  CASE p = "/dev/null" -> p
    [] p = "a/a.ts" -> "a.ts"
    [] p = "b/a.ts" -> "a.ts"
    [] p = "a/b.ts" -> "b.ts"
    [] p = "b/b.ts" -> "b.ts"
    [] p = "a/c.ts" -> "c.ts"
    [] p = "b/c.ts" -> "c.ts"
    [] p = "a/constructor" -> "constructor"
    [] p = "b/constructor" -> "constructor"
    [] OTHER -> p

\* The scan that follows a "--- " line: the index of the first later line
\* that starts with "+++ ", "--- ", "@@ " or "diff --git", or Len + 1.
RECURSIVE ScanForNew(_, _)
ScanForNew(lines, j) ==
  IF j > Len(lines) THEN j
  ELSE IF lines[j].k \in {"new", "old", "hunk", "badhunk", "diffgit"} THEN j
  ELSE ScanForNew(lines, j + 1)

PushHunk(patches, hunk) ==
  LET c == Len(patches) IN
  [patches EXCEPT ![c].hunks = Append(@, hunk)]

PushLine(patches, line) ==
  LET c == Len(patches)
      h == Len(patches[c].hunks) IN
  [patches EXCEPT ![c].hunks[h].lines = Append(@, line)]

ParseError(msg) == [ok |-> FALSE, patches |-> <<>>, error |-> msg]

\* cur: `current` is not null (it is then the last element of patches);
\* hk: `currentHunk` is not null (it is then the last hunk of current).
RECURSIVE ParseFrom(_, _, _, _, _)
ParseFrom(lines, i, patches, cur, hk) ==
  IF i > Len(lines) THEN [ok |-> TRUE, patches |-> patches, error |-> ""]
  ELSE
    LET line == lines[i] IN
    CASE line.k = "fence" -> ParseFrom(lines, i + 1, patches, cur, hk)
      [] line.k = "diffgit" -> ParseFrom(lines, i + 1, patches, FALSE, FALSE)
      [] line.k = "index" -> ParseFrom(lines, i + 1, patches, cur, hk)
      [] line.k = "old" ->
           LET nextIndex == ScanForNew(lines, i + 1) IN
           IF nextIndex > Len(lines) \/ lines[nextIndex].k # "new"
           THEN ParseError("Malformed diff header.")
           ELSE
             LET oldPath == NormalizeDiffPath(line.p)
                 newPath == NormalizeDiffPath(lines[nextIndex].p)
                 filePath == IF newPath # "/dev/null" THEN newPath ELSE oldPath
             IN ParseFrom(lines, nextIndex + 1,
                          Append(patches, [filePath |-> filePath, hunks |-> <<>>]),
                          TRUE, FALSE)
      [] line.k \in {"hunk", "badhunk"} ->
           IF ~cur THEN ParseError("Hunk found before file header.")
           ELSE IF line.k = "badhunk" THEN ParseError("Malformed hunk header.")
           ELSE ParseFrom(lines, i + 1,
                          PushHunk(patches, [oldStart |-> line.n, lines |-> <<>>]),
                          cur, TRUE)
      [] OTHER ->
           IF ~hk THEN ParseFrom(lines, i + 1, patches, cur, hk)
           ELSE IF line.k = "nonl" THEN ParseFrom(lines, i + 1, patches, cur, hk)
           ELSE ParseFrom(lines, i + 1, PushLine(patches, line), cur, hk)

parseUnifiedDiff(diff) == ParseFrom(diff, 1, <<>>, FALSE, FALSE)

hasPatchChanges(patches) ==
  \E f \in 1..Len(patches) :
    \E h \in 1..Len(patches[f].hunks) :
      \E l \in 1..Len(patches[f].hunks[h].lines) :
        LET line == patches[f].hunks[h].lines[l] IN
        /\ StartsPlus(line) \/ StartsMinus(line)
        /\ line.k \notin {"new", "old"}

\* a response taken as valid as soon as it parses
ParseResponse_Unchecked(patchText) == parseUnifiedDiff(patchText)

\* The try block of attemptFix around one generator response: parse, then
\* the two emptiness checks.
ParseResponse(patchText) ==
  LET r == parseUnifiedDiff(patchText) IN
  IF ~r.ok THEN r
  ELSE IF Len(r.patches) = 0 THEN ParseError("Empty patch response.")
  ELSE IF ~hasPatchChanges(r.patches) THEN ParseError("Patch contains no changes.")
  ELSE r

\* --------------------------------------------------------- patch applicator
\* Content is the sequence of the file's lines; a line of the original file
\* is its 1-based number, an added line is 0.
Drop(s, n) == IF n >= Len(s) THEN <<>> ELSE SubSeq(s, n + 1, Len(s))
Slice(s, from, to) == SubSeq(s, from + 1, Min(to, Len(s)))

\* The body of one hunk: cursor counts consumed input lines, and is not
\* checked against the length of the content.
RECURSIVE ApplyHunkLines(_, _, _, _)
ApplyHunkLines(hlines, j, output, cursor) ==
  IF j > Len(hlines) THEN [ok |-> TRUE, output |-> output, cursor |-> cursor]
  ELSE
    LET line == hlines[j] IN
    IF StartsSpace(line)
    THEN ApplyHunkLines(hlines, j + 1, Append(output, line.n), cursor + 1)
    ELSE IF StartsMinus(line)
    THEN ApplyHunkLines(hlines, j + 1, output, cursor + 1)
    ELSE IF StartsPlus(line)
    THEN ApplyHunkLines(hlines, j + 1, Append(output, line.n), cursor)
    ELSE [ok |-> FALSE, output |-> output, cursor |-> cursor]

RECURSIVE ApplyHunks(_, _, _, _, _)
ApplyHunks(lines, hunks, h, output, cursor) ==
  IF h > Len(hunks)
  THEN [ok |-> TRUE, content |-> output \o Drop(lines, cursor), error |-> ""]
  ELSE
    LET startIndex == hunks[h].oldStart - 1 IN
    IF startIndex < 0 \/ startIndex > Len(lines)
    THEN [ok |-> FALSE, content |-> <<>>, error |-> "Hunk start out of range."]
    ELSE
      LET r == ApplyHunkLines(hunks[h].lines, 1,
                              output \o Slice(lines, cursor, startIndex),
                              startIndex) IN
      IF ~r.ok
      THEN [ok |-> FALSE, content |-> <<>>, error |-> "Unexpected diff line."]
      ELSE ApplyHunks(lines, hunks, h + 1, r.output, r.cursor)

\* the cursor starts behind the first line
applyPatchToContent_SkipsFirstLine(content, patch) ==
  ApplyHunks(content, patch.hunks, 1, <<>>, 1)

applyPatchToContent(content, patch) == ApplyHunks(content, patch.hunks, 1, <<>>, 0)

\* ------------------------------------------------------------ scope validator
Msg(t, line, file) == [t |-> t, line |-> line, file |-> file]
PlainMsg(t) == Msg(t, 0, "")

\* The files named by the evidence, in first-occurrence order (Object.keys).
RECURSIVE EvidenceFiles(_)
EvidenceFiles(evidence) ==
  IF evidence = <<>> THEN <<>>
  ELSE
    LET init == EvidenceFiles(SubSeq(evidence, 1, Len(evidence) - 1))
        f == evidence[Len(evidence)].file IN
    IF \E i \in 1..Len(init) : init[i] = f THEN init ELSE Append(init, f)

RangeOf(item) == [startLine |-> item.startLine, endLine |-> item.endLine]

RECURSIVE RangesOfFile(_, _)
RangesOfFile(evidence, f) ==
  IF evidence = <<>> THEN <<>>
  ELSE
    LET rest == RangesOfFile(Tail(evidence), f) IN
    IF evidence[1].file = f THEN <<RangeOf(evidence[1])>> \o rest ELSE rest

buildAllowedRanges(issue) ==
  LET files == EvidenceFiles(issue.evidence) IN
  [f \in {files[i] : i \in 1..Len(files)} |-> RangesOfFile(issue.evidence, f)]

\* allowed is a plain object, so allowed[path] also finds what every object
\* inherits: for "constructor" it is the Object function, which is truthy
\* and has length 1 but no method `some`.
InheritedKeys == {"constructor"}

LookupAllowed(allowed, path) ==
  IF path \in DOMAIN allowed THEN [kind |-> "ranges", ranges |-> allowed[path]]
  ELSE IF path \in InheritedKeys THEN [kind |-> "inherited", ranges |-> <<>>]
  ELSE [kind |-> "undefined", ranges |-> <<>>]

\* lineInRanges without its lower bound
lineInRanges_NoLower(line, ranges) ==
  \E r \in 1..Len(ranges) : line <= ranges[r].endLine

lineInRanges(line, ranges) ==
  \E r \in 1..Len(ranges) : line >= ranges[r].startLine /\ line <= ranges[r].endLine

GuardOk == [status |-> "ok", reason |-> PlainMsg("")]
GuardReject(reason) == [status |-> "rejected", reason |-> reason]
GuardThrow == [status |-> "threw", reason |-> PlainMsg("ranges.some is not a function")]

RECURSIVE ScopeHunkLines(_, _, _, _, _)
ScopeHunkLines(hlines, j, oldLine, look, filePath) ==
  IF j > Len(hlines) THEN GuardOk
  ELSE
    LET line == hlines[j] IN
    IF StartsMinus(line)
    THEN IF look.kind = "inherited" THEN GuardThrow
         ELSE IF ~lineInRanges(oldLine, look.ranges)
         THEN GuardReject(Msg("Patch removes line N outside evidence in F", oldLine, filePath))
         ELSE ScopeHunkLines(hlines, j + 1, oldLine + 1, look, filePath)
    ELSE IF StartsPlus(line)
    THEN IF look.kind = "inherited" THEN GuardThrow
         ELSE IF ~lineInRanges(oldLine, look.ranges)
         THEN GuardReject(Msg("Patch adds line outside evidence near N in F", oldLine, filePath))
         ELSE ScopeHunkLines(hlines, j + 1, oldLine, look, filePath)
    ELSE IF StartsSpace(line)
    THEN ScopeHunkLines(hlines, j + 1, oldLine + 1, look, filePath)
    ELSE ScopeHunkLines(hlines, j + 1, oldLine, look, filePath)

RECURSIVE ScopeHunks(_, _, _, _)
ScopeHunks(hunks, h, look, filePath) ==
  IF h > Len(hunks) THEN GuardOk
  ELSE
    LET r == ScopeHunkLines(hunks[h].lines, 1, hunks[h].oldStart, look, filePath) IN
    IF r.status # "ok" THEN r ELSE ScopeHunks(hunks, h + 1, look, filePath)

RECURSIVE ScopeFiles(_, _, _)
ScopeFiles(patch, f, allowed) ==
  IF f > Len(patch) THEN GuardOk
  ELSE
    LET filePath == patch[f].filePath
        look == LookupAllowed(allowed, filePath) IN
    IF look.kind = "undefined" \/ (look.kind = "ranges" /\ Len(look.ranges) = 0)
    THEN GuardReject(Msg("Patch touches non-evidence file: F", 0, filePath))
    ELSE
      LET r == ScopeHunks(patch[f].hunks, 1, look, filePath) IN
      IF r.status # "ok" THEN r ELSE ScopeFiles(patch, f + 1, allowed)

patchWithinEvidence(patch, allowed) == ScopeFiles(patch, 1, allowed)

\* /outside evidence/i.test(message), by message template
MatchesOutsideEvidence(msg) ==
  msg.t \in {"Patch removes line N outside evidence in F",
             "Patch adds line outside evidence near N in F"}

\* ------------------------------------------------------------ evidence guard
isNonEmptyString(v) == v # ""
isValidLine(v) == v > 0

validateEvidence_Silent(issue) ==
  [issue EXCEPT !.evidenceComplete = Len(issue.evidence) > 0,
                !.missingEvidenceReason = ""]

validateEvidence(issue) ==
  LET ev == issue.evidence
      Bad(i) ==
        IF ~isNonEmptyString(ev[i].file) THEN "Evidence item missing file path."
        ELSE IF ~isValidLine(ev[i].startLine) \/ ~isValidLine(ev[i].endLine)
        THEN "Evidence item missing line range."
        ELSE IF ev[i].endLine < ev[i].startLine
        THEN "Evidence item line range is invalid."
        ELSE IF Len(ev[i].metrics) = 0 THEN "Evidence item missing metrics."
        ELSE IF \E m \in 1..Len(ev[i].metrics) :
                  ev[i].metrics[m].type = "" \/ ev[i].metrics[m].value < 0
        THEN "Evidence item has invalid metric."
        ELSE ""
      bad == {i \in 1..Len(ev) : Bad(i) # ""}
  IN
  IF Len(ev) = 0
  THEN [issue EXCEPT !.evidenceComplete = FALSE,
                     !.missingEvidenceReason = "No evidence items provided."]
  ELSE IF bad # {}
  THEN LET first == CHOOSE i \in bad : \A j \in bad : i <= j IN
       [issue EXCEPT !.evidenceComplete = FALSE,
                     !.missingEvidenceReason = Bad(first)]
  ELSE [issue EXCEPT !.evidenceComplete = TRUE, !.missingEvidenceReason = ""]

runEvidenceGuardAgent(insights) ==
  [i \in 1..Len(insights) |->
     validateEvidence([insights[i] EXCEPT !.evidenceComplete = TRUE])]

\* ------------------------------------------------------------ pipeline inputs
FileLines == 56
DiskFiles == {"a.ts", "b.ts", "c.ts"}

RECURSIVE Iota(_)
Iota(n) == IF n = 0 THEN <<>> ELSE Append(Iota(n - 1), n)
DiskContent(f) == Iota(FileLines)

Item(f, s, e) ==
  [file |-> f, startLine |-> s, endLine |-> e,
   metrics |-> <<[type |-> "loc", value |-> e - s + 1]>>]

RawIssue(type, signal, evidence) ==
  [type |-> type, signal |-> signal, evidence |-> evidence,
   evidenceComplete |-> TRUE, missingEvidenceReason |-> ""]

\* What the aggregator hands to the guard: two long functions (a.ts first),
\* a duplicated block with two occurrences in b.ts, a cycle, and a long
\* function whose evidence item has lost its metrics.
IssuePool ==
  { RawIssue("maintainability", "longFunctions",
             <<Item("a.ts", 2, 56), Item("b.ts", 1, 50)>>),
    RawIssue("duplication", "duplicateBlocks",
             <<Item("b.ts", 2, 11), Item("b.ts", 30, 39)>>),
    RawIssue("architecture", "circularDependencies",
             <<Item("a.ts", 1, 1), Item("b.ts", 1, 1)>>),
    RawIssue("maintainability", "longFunctions",
             <<[Item("a.ts", 2, 56) EXCEPT !.metrics = <<>>]>>) }

RECURSIVE SeqsUpTo(_, _)
SeqsUpTo(S, n) ==
  IF n = 0 THEN {<<>>}
  ELSE LET shorter == SeqsUpTo(S, n - 1) IN
       shorter \cup {Append(q, x) : q \in shorter, x \in S}

InsightsSpace == {runEvidenceGuardAgent(q) : q \in SeqsUpTo(IssuePool, MaxIssues)}

\* The analysis of the tree on disk, which the issues were built from.
LongFn(f, s, e) == [file |-> f, startLine |-> s, endLine |-> e, length |-> e - s + 1]
AnalysisBefore ==
  [longFunctions |-> {LongFn("a.ts", 2, 56), LongFn("b.ts", 1, 50)},
   duplicateBlocks |-> 1]

\* What the second run of runCodeAnalysisAgent may report. It reads the tree
\* on disk anew, so it reports what the first run did unless the tree was
\* edited in the meantime (the function of a.ts no longer long and the
\* duplicate gone).
AnalysisAfterSpace ==
  { AnalysisBefore,
    [longFunctions |-> {LongFn("b.ts", 1, 50)}, duplicateBlocks |-> 0] }

\* ----------------------------------------------------- generator responses
Sec(rawOld, rawNew, n, body) == <<Old(rawOld), New(rawNew), HunkHdr(n)>> \o body

Responses ==
  { Sec("a/a.ts", "b/a.ts", 2, <<Rem, Add>>),
    <<Blank>> \o Sec("a/a.ts", "b/a.ts", 2, <<Rem, Add>>) \o <<Blank>>,
    Sec("a/a.ts", "b/a.ts", 56, <<Rem, Add>>),
    Sec("a/a.ts", "b/a.ts", 55, <<Rem, Rem>>) \o <<HunkHdr(57)>>,
    Sec("a/a.ts", "b/a.ts", 1, <<Rem, Add>>),
    Sec("a/b.ts", "b/b.ts", 2, <<Rem>>),
    Sec("a/c.ts", "b/c.ts", 1, <<Rem>>),
    Sec("a/constructor", "b/constructor", 1, <<Rem>>),
    Sec("a/a.ts", "b/a.ts", 2, <<Rem, Text>>),
    Sec("a/a.ts", "b/a.ts", 0, <<Ctx, Ctx, Rem>>),
    <<Blank>>,
    <<Text>>,
    Sec("a/a.ts", "b/a.ts", 2, <<Ctx>>),
    <<Old("a/a.ts"), New("b/a.ts"), BadHunk>> }

\* A generator call ends with a response text or with a throw: of an Error
\* (its message, possibly empty, is kept) or of some other value ("Invalid
\* patch." stands in for it).
GenOutcomes ==
  {[threw |-> FALSE, message |-> "", raw |-> r] : r \in Responses}
  \cup {[threw |-> TRUE, message |-> "fetch failed", raw |-> <<>>],
        [threw |-> TRUE, message |-> "", raw |-> <<>>],
        [threw |-> TRUE, message |-> "Invalid patch.", raw |-> <<>>]}

\* extractText of gemini-client: the trimmed text, or a throw when empty.
extractText(raw) ==
  LET text == Trim(raw) IN
  IF text = <<>>
  THEN [threw |-> TRUE, message |-> "Gemini response missing text.", text |-> <<>>]
  ELSE [threw |-> FALSE, message |-> "", text |-> text]

generatePatch(outcome) ==
  IF outcome.threw
  THEN [threw |-> TRUE, message |-> outcome.message, text |-> <<>>]
  ELSE extractText(outcome.raw)

\* ------------------------------------------------------------------- state
VARIABLES
  insights,     \* the guarded issues handed to runFixItAgent
  apiKey,       \* getGeminiApiKey() is defined
  readable,     \* the files fs.readFile can read
  pc,           \* position of runFixItAgent / runFixApplyAgent
  idx,          \* candidates of the slice already handled by the loop
  att,          \* the locals of the running attemptFix
  suggestions,  \* FixSuggestion[] of the run
  sources,      \* history: per suggestion, the text its last generator call returned
  trace,        \* history: attempts entered and left, generator calls
  overlays,     \* history: every overlay built, with the text it came from
  preview,      \* note of the preview summary
  applyResult,  \* FixApplyResult
  gitLog,       \* history: commands run by runFixApplyAgent
  repo,         \* the git repository runFixApplyAgent works on
  sPatch, sEvidence, sOut,  \* input and result of the scope validator alone
  fnIn, fnOut   \* argument and result of one other function run on its own

vars == <<insights, apiKey, readable, pc, idx, att, suggestions, sources, trace, overlays,
          preview, applyResult, gitLog, repo, sPatch, sEvidence, sOut, fnIn, fnOut>>

applyVars == <<applyResult, gitLog, repo>>
scopeVars == <<sPatch, sEvidence, sOut>>
fnVars == <<fnIn, fnOut>>

NoAtt == [patchText |-> <<>>, patches |-> <<>>, reason |-> "", overrides |-> <<>>]
NoApply == [status |-> "none", branch |-> FALSE, testsRun |-> FALSE]
CleanRepo == [onFixBranch |-> FALSE, fixBranchExists |-> FALSE, applied |-> <<>>]

\* --------------------------------------------------------------- attemptFix
Candidates(issues) ==
  SelectSeq(issues, LAMBDA issue : issue.signal \in FIXABLE_SIGNALS)

\* the loop over all candidates, without the slice
Attempted_All(candidates) == candidates

Attempted(candidates) == SubSeq(candidates, 1, Min(MAX_FIXES, Len(candidates)))

CurrentSlice == Attempted(Candidates(insights))

\* The first file, in order of first appearance, that has two evidence
\* items; its first two items.
selectDuplicateEvidence(issue) ==
  LET ev == issue.evidence
      files == EvidenceFiles(ev)
      Of(f) == SelectSeq(ev, LAMBDA item : item.file = f)
      twice == {i \in 1..Len(files) : Len(Of(files[i])) >= 2}
  IN IF twice = {} THEN <<>>
     ELSE LET first == CHOOSE i \in twice : \A j \in twice : i <= j
          IN SubSeq(Of(files[first]), 1, 2)

EvidenceItemsOf(issue) ==
  IF issue.signal = "longFunctions"
  THEN SubSeq(issue.evidence, 1, Min(1, Len(issue.evidence)))
  ELSE IF issue.signal = "duplicateBlocks" THEN selectDuplicateEvidence(issue)
  ELSE <<>>

\* attemptFix without its evidenceComplete test
ReturnsNull_Unguarded(issue) ==
  \/ ~apiKey
  \/ issue.signal \notin {"longFunctions", "duplicateBlocks"}
  \/ issue.signal = "longFunctions" /\ Len(EvidenceItemsOf(issue)) = 0
  \/ issue.signal = "duplicateBlocks" /\ Len(EvidenceItemsOf(issue)) < 2

\* attemptFix returns null before any generator call.
ReturnsNull(issue) ==
  \/ ~issue.evidenceComplete
  \/ ~apiKey
  \/ issue.signal \notin {"longFunctions", "duplicateBlocks"}
  \/ issue.signal = "longFunctions" /\ Len(EvidenceItemsOf(issue)) = 0
  \/ issue.signal = "duplicateBlocks" /\ Len(EvidenceItemsOf(issue)) < 2

SnippetsReadable(issue) ==
  \A i \in 1..Len(EvidenceItemsOf(issue)) : EvidenceItemsOf(issue)[i].file \in readable

\* a FixSuggestion built without the patch text
Suggestion_NoPatch(issueId, issue, patch, verified, message, details) ==
  [issueId |-> issueId, issueType |-> issue.type, signal |-> issue.signal,
   files |-> EvidenceFiles(issue.evidence), patch |-> <<>>,
   verified |-> verified, verificationMessage |-> message,
   verificationDetails |-> details]

Suggestion(issueId, issue, patch, verified, message, details) ==
  [issueId |-> issueId, issueType |-> issue.type, signal |-> issue.signal,
   files |-> EvidenceFiles(issue.evidence), patch |-> patch,
   verified |-> verified, verificationMessage |-> message,
   verificationDetails |-> details]

Rejected(issueId, issue, message) ==
  Suggestion(issueId, issue, <<>>, FALSE, message, <<>>)

\* overrides[filePath] = content, on a list of [file, content] entries
SetOverride(overrides, file, content) ==
  IF \E i \in 1..Len(overrides) : overrides[i].file = file
  THEN [i \in 1..Len(overrides) |->
          IF overrides[i].file = file
          THEN [file |-> file, content |-> content] ELSE overrides[i]]
  ELSE Append(overrides, [file |-> file, content |-> content])

\* The loop of attemptFix that reads each patched file from disk and applies
\* its FilePatch; neither the read nor the application is inside a try.
RECURSIVE BuildOverrides(_, _, _)
BuildOverrides(patches, f, overrides) ==
  IF f > Len(patches) THEN [ok |-> TRUE, overrides |-> overrides, error |-> ""]
  ELSE
    LET filePath == patches[f].filePath IN
    IF filePath \notin readable
    THEN [ok |-> FALSE, overrides |-> <<>>, error |-> "ENOENT"]
    ELSE
      LET r == applyPatchToContent(DiskContent(filePath), patches[f]) IN
      IF ~r.ok THEN [ok |-> FALSE, overrides |-> <<>>, error |-> r.error]
      ELSE BuildOverrides(patches, f + 1, SetOverride(overrides, filePath, r.content))

\* ------------------------------------------------------------- verification
Max(S) == CHOOSE x \in S : \A y \in S : y <= x

\* any long function of the file counts, wherever it lies
findMaxLongFunctionInRange_AnyRange(longFunctions, file, range) ==
  LET matches == {fn \in longFunctions :
                    fn.file = file /\ fn.length >= LONG_FUNCTION_LOC}
  IN IF matches = {} THEN 0 ELSE Max({fn.length : fn \in matches})

findMaxLongFunctionInRange(longFunctions, file, range) ==
  LET matches == {fn \in longFunctions :
                    /\ fn.file = file
                    /\ fn.startLine <= range.endLine
                    /\ fn.endLine >= range.startLine
                    /\ fn.length >= LONG_FUNCTION_LOC}
  IN IF matches = {} THEN 0 ELSE Max({fn.length : fn \in matches})

verifyLongFunctionFix(before, after, evidence) ==
  LET range == RangeOf(evidence)
      beforeMax == findMaxLongFunctionInRange(before.longFunctions, evidence.file, range)
      afterMax == findMaxLongFunctionInRange(after.longFunctions, evidence.file, range)
      details == <<"longFunctionLength", beforeMax, afterMax>>
  IN IF beforeMax = 0
     THEN [ok |-> FALSE, message |-> "No long function found in evidence range.",
           details |-> <<>>]
     ELSE IF afterMax = 0 \/ afterMax < beforeMax
     THEN [ok |-> TRUE, message |-> "Long function length reduced.", details |-> details]
     ELSE [ok |-> FALSE, message |-> "Long function length did not improve.",
           details |-> details]

\* an unchanged count taken as a success
verifyDuplicateFix_NotWorse(before, after) ==
  LET details == <<"duplicateBlocks", before.duplicateBlocks, after.duplicateBlocks>> IN
  IF after.duplicateBlocks <= before.duplicateBlocks
  THEN [ok |-> TRUE, message |-> "Duplicate blocks reduced.", details |-> details]
  ELSE [ok |-> FALSE, message |-> "Duplicate blocks did not improve.", details |-> details]

verifyDuplicateFix(before, after) ==
  LET details == <<"duplicateBlocks", before.duplicateBlocks, after.duplicateBlocks>> IN
  IF after.duplicateBlocks < before.duplicateBlocks
  THEN [ok |-> TRUE, message |-> "Duplicate blocks reduced.", details |-> details]
  ELSE [ok |-> FALSE, message |-> "Duplicate blocks did not improve.", details |-> details]

Verify(issue, after) ==
  IF issue.signal = "longFunctions" /\ Len(EvidenceItemsOf(issue)) > 0
  THEN verifyLongFunctionFix(AnalysisBefore, after, EvidenceItemsOf(issue)[1])
  ELSE IF issue.signal = "duplicateBlocks"
  THEN verifyDuplicateFix(AnalysisBefore, after)
  ELSE [ok |-> FALSE, message |-> "No verification available.", details |-> <<>>]

\* ------------------------------------------------------------ runFixItAgent
ReadableSpace == {DiskFiles, DiskFiles \ {"b.ts"}}

\* result: how attemptFix took the response of a generator call
Ev(ev, id, prompt, result) ==
  [ev |-> ev, id |-> id, prompt |-> prompt, result |-> result]

IssueId == idx + 1
CurrentIssue == CurrentSlice[IssueId]

\* attemptFix going on whatever the scope validator says
GuardVerdict_Ignored(patches, issue) == GuardOk

\* The call of the scope validator in attemptFix.
GuardVerdict(patches, issue) == patchWithinEvidence(patches, buildAllowedRanges(issue))

\* a retry after every invalid response
AfterInvalid_Always(pcv) == "gen2"

\* Where attemptFix goes after an invalid response: the first one is
\* answered by the retry prompt, the second one ends the attempt.
AfterInvalid(pcv) == IF pcv = "gen1" THEN "gen2" ELSE "reject"

PromptOf(pcv) == IF pcv = "gen1" THEN "base" ELSE "retry"

Return(suggestion, tr, text) ==
  /\ suggestions' = Append(suggestions, suggestion)
  /\ sources' = Append(sources, text)
  /\ idx' = idx + 1
  /\ pc' = "loop"
  /\ att' = NoAtt
  /\ trace' = Append(tr, Ev("exit", IssueId, "", ""))

LoopDone ==
  /\ pc = "loop"
  /\ idx >= Len(CurrentSlice)
  /\ pc' = "preview"
  /\ UNCHANGED <<insights, apiKey, readable, idx, att, suggestions, sources, trace, overlays,
                 preview, applyVars, scopeVars, fnVars>>

SkipIssue ==
  /\ pc = "loop"
  /\ idx < Len(CurrentSlice)
  /\ ReturnsNull(CurrentIssue)
  /\ idx' = idx + 1
  /\ trace' = trace \o <<Ev("enter", IssueId, "", ""), Ev("exit", IssueId, "", "")>>
  /\ UNCHANGED <<insights, apiKey, readable, pc, att, suggestions, sources, overlays,
                 preview, applyVars, scopeVars, fnVars>>

SnippetThrows ==
  /\ pc = "loop"
  /\ idx < Len(CurrentSlice)
  /\ ~ReturnsNull(CurrentIssue)
  /\ ~SnippetsReadable(CurrentIssue)
  /\ pc' = "threw"
  /\ trace' = Append(trace, Ev("enter", IssueId, "", ""))
  /\ UNCHANGED <<insights, apiKey, readable, idx, att, suggestions, sources, overlays,
                 preview, applyVars, scopeVars, fnVars>>

BeginAttempt ==
  /\ pc = "loop"
  /\ idx < Len(CurrentSlice)
  /\ ~ReturnsNull(CurrentIssue)
  /\ SnippetsReadable(CurrentIssue)
  /\ pc' = "gen1"
  /\ trace' = Append(trace, Ev("enter", IssueId, "", ""))
  /\ UNCHANGED <<insights, apiKey, readable, idx, att, suggestions, sources, overlays,
                 preview, applyVars, scopeVars, fnVars>>

\* One generator call and everything attemptFix does with its result up to
\* the next await: parse, emptiness checks, scope validation.
GeneratorThrows ==
  /\ pc \in {"gen1", "gen2"}
  /\ \E o \in GenOutcomes :
       LET g == generatePatch(o) IN
       /\ g.threw
       /\ Return(Rejected(IssueId, CurrentIssue, PlainMsg(g.message)),
                 Append(trace, Ev("gen", IssueId, PromptOf(pc), "threw")), <<>>)
  /\ UNCHANGED <<insights, apiKey, readable, overlays, preview, applyVars, scopeVars, fnVars>>

InvalidResponse ==
  /\ pc \in {"gen1", "gen2"}
  /\ \E o \in GenOutcomes :
       LET g == generatePatch(o)
           p == ParseResponse(g.text)
           tr == Append(trace, Ev("gen", IssueId, PromptOf(pc), "invalid")) IN
       /\ ~g.threw
       /\ ~p.ok
       /\ IF AfterInvalid(pc) = "reject"
          THEN Return(Rejected(IssueId, CurrentIssue, PlainMsg(p.error)), tr, g.text)
          ELSE /\ pc' = AfterInvalid(pc)
               /\ att' = [NoAtt EXCEPT !.reason = p.error]
               /\ trace' = tr
               /\ UNCHANGED <<idx, suggestions, sources>>
  /\ UNCHANGED <<insights, apiKey, readable, overlays, preview, applyVars, scopeVars, fnVars>>

ScopeRejects ==
  /\ pc \in {"gen1", "gen2"}
  /\ \E o \in GenOutcomes :
       LET g == generatePatch(o)
           p == ParseResponse(g.text)
           v == GuardVerdict(p.patches, CurrentIssue) IN
       /\ ~g.threw
       /\ p.ok
       /\ v.status = "rejected"
       /\ Return(Rejected(IssueId, CurrentIssue, v.reason),
                 Append(trace, Ev("gen", IssueId, PromptOf(pc), "valid")), g.text)
  /\ UNCHANGED <<insights, apiKey, readable, overlays, preview, applyVars, scopeVars, fnVars>>

ScopeThrows ==
  /\ pc \in {"gen1", "gen2"}
  /\ \E o \in GenOutcomes :
       LET g == generatePatch(o)
           p == ParseResponse(g.text)
           v == GuardVerdict(p.patches, CurrentIssue) IN
       /\ ~g.threw
       /\ p.ok
       /\ v.status = "threw"
       /\ pc' = "threw"
       /\ att' = [NoAtt EXCEPT !.patchText = g.text, !.patches = p.patches]
       /\ trace' = Append(trace, Ev("gen", IssueId, PromptOf(pc), "valid"))
  /\ UNCHANGED <<insights, apiKey, readable, idx, suggestions, sources, overlays,
                 preview, applyVars, scopeVars, fnVars>>

ScopeAccepts ==
  /\ pc \in {"gen1", "gen2"}
  /\ \E o \in GenOutcomes :
       LET g == generatePatch(o)
           p == ParseResponse(g.text)
           v == GuardVerdict(p.patches, CurrentIssue) IN
       /\ ~g.threw
       /\ p.ok
       /\ v.status = "ok"
       /\ pc' = "apply"
       /\ att' = [NoAtt EXCEPT !.patchText = g.text, !.patches = p.patches]
       /\ trace' = Append(trace, Ev("gen", IssueId, PromptOf(pc), "valid"))
  /\ UNCHANGED <<insights, apiKey, readable, idx, suggestions, sources, overlays,
                 preview, applyVars, scopeVars, fnVars>>

\* The overlay loop: fs.readFile and applyPatchToContent per FilePatch.
OverlayThrows ==
  /\ pc = "apply"
  /\ ~BuildOverrides(att.patches, 1, <<>>).ok
  /\ pc' = "threw"
  /\ UNCHANGED <<insights, apiKey, readable, idx, att, suggestions, sources, trace, overlays,
                 preview, applyVars, scopeVars, fnVars>>

OverlayBuilt ==
  /\ pc = "apply"
  /\ LET r == BuildOverrides(att.patches, 1, <<>>) IN
       /\ r.ok
       /\ att' = [att EXCEPT !.overrides = r.overrides]
       /\ overlays' = Append(overlays, [id |-> IssueId, text |-> att.patchText,
                                        overrides |-> r.overrides])
  /\ pc' = "analyze"
  /\ UNCHANGED <<insights, apiKey, readable, idx, suggestions, sources, trace,
                 preview, applyVars, scopeVars, fnVars>>

\* runCodeAnalysisAgent over the overlay, then the signal's verifier.
VerifyPatch ==
  /\ pc = "analyze"
  /\ \E after \in AnalysisAfterSpace :
       LET verification == Verify(CurrentIssue, after) IN
       Return(Suggestion(IssueId, CurrentIssue, Trim(att.patchText), verification.ok,
                         PlainMsg(verification.message), verification.details),
              trace, att.patchText)
  /\ UNCHANGED <<insights, apiKey, readable, overlays, preview, applyVars, scopeVars, fnVars>>

\* ------------------------------------------------------ buildPreviewSummary
IsVerifiedWithPatch(suggestion) == suggestion.verified /\ suggestion.patch # <<>>

RECURSIVE FlatParse(_)
FlatParse(list) ==
  IF list = <<>> THEN <<>>
  ELSE parseUnifiedDiff(list[1].patch).patches \o FlatParse(Tail(list))

RECURSIVE ApplyInSequence(_, _)
ApplyInSequence(content, filePatches) ==
  IF filePatches = <<>> THEN [ok |-> TRUE, content |-> content, error |-> ""]
  ELSE
    LET r == applyPatchToContent(content, filePatches[1]) IN
    IF ~r.ok THEN r ELSE ApplyInSequence(r.content, Tail(filePatches))

\* Patches are grouped by file; each file is read once and its patches are
\* applied one after another to the evolving content.
applyPatchesToOverrides(patches) ==
  LET files == EvidenceFiles([i \in 1..Len(patches) |-> [file |-> patches[i].filePath]])
      Of(f) == SelectSeq(patches, LAMBDA fp : fp.filePath = f)
  IN \A i \in 1..Len(files) :
       /\ files[i] \in readable
       /\ ApplyInSequence(DiskContent(files[i]), Of(files[i])).ok

VerifiedPatches == FlatParse(SelectSeq(suggestions, IsVerifiedWithPatch))

PreviewThrows ==
  /\ pc = "preview"
  /\ Len(VerifiedPatches) > 0
  /\ ~applyPatchesToOverrides(VerifiedPatches)
  /\ pc' = "threw"
  /\ UNCHANGED <<insights, apiKey, readable, idx, att, suggestions, sources, trace, overlays,
                 preview, applyVars, scopeVars, fnVars>>

PreviewDone ==
  /\ pc = "preview"
  /\ \/ /\ Len(VerifiedPatches) = 0
        /\ preview' = "No verified patches to compare yet."
     \/ /\ Len(VerifiedPatches) > 0
        /\ applyPatchesToOverrides(VerifiedPatches)
        /\ preview' = "Preview metrics are based on verified patch candidates."
  /\ pc' = "done"
  /\ UNCHANGED <<insights, apiKey, readable, idx, att, suggestions, sources, trace, overlays,
                 applyVars, scopeVars, fnVars>>

\* --------------------------------------------------------- runFixApplyAgent
RECURSIVE JoinPatches(_)
JoinPatches(list) ==
  IF list = <<>> THEN <<>>
  ELSE IF Len(list) = 1 THEN list[1]
  ELSE list[1] \o <<Blank>> \o JoinPatches(Tail(list))

\* the filter of runFixApplyAgent without its `verified` test
PatchesToApply_Unverified(list) ==
  LET kept == SelectSeq(list, LAMBDA sg : sg.patch # <<>>)
      trimmed == [i \in 1..Len(kept) |-> Trim(kept[i].patch)]
  IN SelectSeq(trimmed, LAMBDA t : Len(t) > 0)

\* suggestions.filter(verified && patch).map(trim).filter(non-empty)
PatchesToApply(list) ==
  LET kept == SelectSeq(list, IsVerifiedWithPatch)
      trimmed == [i \in 1..Len(kept) |-> Trim(kept[i].patch)]
  IN SelectSeq(trimmed, LAMBDA t : Len(t) > 0)

Git(cmd) == [cmd |-> cmd, text |-> <<>>]
GitApply(text) == [cmd |-> "apply", text |-> text]

Probe == <<Git("rev-parse --show-toplevel")>>
Prepared == Probe \o <<Git("status --porcelain"), Git("branch --list"),
                       Git("rev-parse --abbrev-ref HEAD")>>
Branched == Prepared \o <<Git("checkout -b")>>

ApplyEnds(status, branch, testsRun, log, r) ==
  /\ pc' = "applied"
  /\ applyResult' = [status |-> status, branch |-> branch, testsRun |-> testsRun]
  /\ gitLog' = log
  /\ repo' = r
  /\ UNCHANGED <<insights, apiKey, readable, idx, att, suggestions, sources, trace, overlays,
                 preview, scopeVars, fnVars>>

ApplySkipped ==
  /\ pc = "done"
  /\ Len(PatchesToApply(suggestions)) = 0
  /\ ApplyEnds("skipped", FALSE, FALSE, <<>>, repo)

\* rev-parse --show-toplevel fails
ApplyNoRepo ==
  /\ pc = "done"
  /\ Len(PatchesToApply(suggestions)) > 0
  /\ ApplyEnds("failed", FALSE, FALSE, Probe, repo)

\* the working tree is not clean
ApplyDirty ==
  /\ pc = "done"
  /\ Len(PatchesToApply(suggestions)) > 0
  /\ ApplyEnds("failed", FALSE, FALSE, SubSeq(Prepared, 1, 2), repo)

\* checkout -b fails
ApplyNoBranch ==
  /\ pc = "done"
  /\ Len(PatchesToApply(suggestions)) > 0
  /\ ApplyEnds("failed", TRUE, FALSE, Branched, repo)

\* git apply fails; the rollback is checkout, then branch -D, and stops
\* silently at the first command that fails.
ApplyPatchFails ==
  /\ pc = "done"
  /\ Len(PatchesToApply(suggestions)) > 0
  /\ LET text == JoinPatches(PatchesToApply(suggestions))
         log == Append(Branched, GitApply(text)) IN
     \/ ApplyEnds("failed", TRUE, FALSE,
                  log \o <<Git("checkout"), Git("branch -D")>>,
                  [repo EXCEPT !.onFixBranch = FALSE, !.fixBranchExists = FALSE])
     \/ ApplyEnds("failed", TRUE, FALSE,
                  log \o <<Git("checkout"), Git("branch -D")>>,
                  [repo EXCEPT !.onFixBranch = FALSE, !.fixBranchExists = TRUE])
     \/ ApplyEnds("failed", TRUE, FALSE,
                  log \o <<Git("checkout")>>,
                  [repo EXCEPT !.onFixBranch = TRUE, !.fixBranchExists = TRUE])

\* the test command fails and the branch is rolled back
ApplyTestsFail_RollsBack ==
  /\ pc = "done"
  /\ Len(PatchesToApply(suggestions)) > 0
  /\ LET text == JoinPatches(PatchesToApply(suggestions)) IN
     ApplyEnds("failed", TRUE, TRUE,
               Append(Branched, GitApply(text)) \o <<Git("checkout"), Git("branch -D")>>,
               [onFixBranch |-> FALSE, fixBranchExists |-> FALSE, applied |-> <<>>])

\* the patch applies and the test command fails: no rollback
ApplyTestsFail ==
  /\ pc = "done"
  /\ Len(PatchesToApply(suggestions)) > 0
  /\ LET text == JoinPatches(PatchesToApply(suggestions)) IN
     ApplyEnds("failed", TRUE, TRUE, Append(Branched, GitApply(text)),
               [onFixBranch |-> TRUE, fixBranchExists |-> TRUE, applied |-> text])

ApplyApplied ==
  /\ pc = "done"
  /\ Len(PatchesToApply(suggestions)) > 0
  /\ LET text == JoinPatches(PatchesToApply(suggestions)) IN
     ApplyEnds("applied", TRUE, TRUE, Append(Branched, GitApply(text)),
               [onFixBranch |-> TRUE, fixBranchExists |-> TRUE, applied |-> text])

\* ------------------------------------------------------------ specification
Init ==
  /\ insights \in InsightsSpace
  /\ apiKey \in BOOLEAN
  /\ readable \in ReadableSpace
  /\ pc = "loop"
  /\ idx = 0
  /\ att = NoAtt
  /\ suggestions = <<>>
  /\ sources = <<>>
  /\ trace = <<>>
  /\ overlays = <<>>
  /\ preview = ""
  /\ applyResult = NoApply
  /\ gitLog = <<>>
  /\ repo = CleanRepo
  /\ sPatch = <<>>
  /\ sEvidence = <<>>
  /\ sOut = GuardOk
  /\ fnIn = <<>>
  /\ fnOut = <<>>

Next ==
  \/ LoopDone
  \/ SkipIssue
  \/ SnippetThrows
  \/ BeginAttempt
  \/ GeneratorThrows
  \/ InvalidResponse
  \/ ScopeRejects
  \/ ScopeThrows
  \/ ScopeAccepts
  \/ OverlayThrows
  \/ OverlayBuilt
  \/ VerifyPatch
  \/ PreviewThrows
  \/ PreviewDone
  \/ ApplySkipped
  \/ ApplyNoRepo
  \/ ApplyDirty
  \/ ApplyNoBranch
  \/ ApplyPatchFails
  \/ ApplyTestsFail
  \/ ApplyApplied

Spec == Init /\ [][Next]_vars

TypeOK ==
  /\ pc \in {"loop", "gen1", "gen2", "apply", "analyze", "preview", "done",
             "threw", "applied"}
  /\ idx \in 0..MAX_FIXES
  /\ Len(suggestions) <= idx

\* --------------------------------------- the scope validator on its own
ScopeRanges == {r \in (1..MaxLine) \X (1..MaxLine) : r[1] <= r[2]}

ScopeEvidenceSpace ==
  LET first == {Item("a.ts", r[1], r[2]) : r \in ScopeRanges}
      second == {Item("a.ts", MaxLine, MaxLine), Item("b.ts", 1, 1), Item("b.ts", 2, 3)}
  IN {<<x>> : x \in first} \cup {<<x, y>> : x \in first, y \in second}

BodyLines == {Ctx, Add, Rem, Text}
ScopeBodies == SeqsUpTo(BodyLines, MaxBody)
ScopeHunkSpace == {[oldStart |-> n, lines |-> b] : n \in 0..(MaxLine + 1), b \in ScopeBodies}

ScopePatchSpace ==
  LET paths == {"a.ts", "b.ts", "c.ts", "constructor"}
      moreHunks == {<<>>, <<[oldStart |-> MaxLine, lines |-> <<Rem>>]>>}
      moreFiles == {<<>>, <<[filePath |-> "b.ts",
                             hunks |-> <<[oldStart |-> 1, lines |-> <<Rem>>]>>]>>}
  IN {<<[filePath |-> f, hunks |-> <<h>> \o mh]>> \o mf :
        f \in paths, h \in ScopeHunkSpace, mh \in moreHunks, mf \in moreFiles}

ScopeInit ==
  /\ sPatch \in ScopePatchSpace
  /\ sEvidence \in ScopeEvidenceSpace
  /\ sOut = GuardOk
  /\ pc = "scope"
  /\ insights = <<>>
  /\ apiKey = FALSE
  /\ readable = DiskFiles
  /\ idx = 0
  /\ att = NoAtt
  /\ suggestions = <<>>
  /\ sources = <<>>
  /\ trace = <<>>
  /\ overlays = <<>>
  /\ preview = ""
  /\ applyResult = NoApply
  /\ gitLog = <<>>
  /\ repo = CleanRepo
  /\ fnIn = <<>>
  /\ fnOut = <<>>

ScopeCheck ==
  /\ pc = "scope"
  /\ sOut' = patchWithinEvidence(sPatch, buildAllowedRanges([evidence |-> sEvidence]))
  /\ pc' = "scoped"
  /\ UNCHANGED <<insights, apiKey, readable, idx, att, suggestions, sources, trace,
                 overlays, preview, applyVars, sPatch, sEvidence, fnVars>>

ScopeNext == ScopeCheck

SpecScope == ScopeInit /\ [][ScopeNext]_vars

\* ------------------------------------------------- what the claims speak of
\* The old-file cursor at line j of a hunk: oldStart plus the context and
\* removed lines before it.
CursorAt(hunk, j) ==
  hunk.oldStart + Cardinality({i \in 1..(j - 1) :
                                 StartsSpace(hunk.lines[i]) \/ StartsMinus(hunk.lines[i])})

Cited(evidence, file, line) ==
  \E i \in 1..Len(evidence) :
    /\ evidence[i].file = file
    /\ evidence[i].startLine <= line
    /\ line <= evidence[i].endLine

HasRanges(evidence, file) == \E i \in 1..Len(evidence) : evidence[i].file = file

EditsOutside(fp, evidence) ==
  \E h \in 1..Len(fp.hunks) :
    \E j \in 1..Len(fp.hunks[h].lines) :
      /\ StartsPlus(fp.hunks[h].lines[j]) \/ StartsMinus(fp.hunks[h].lines[j])
      /\ ~Cited(evidence, fp.filePath, CursorAt(fp.hunks[h], j))

FileViolates(fp, evidence) ==
  ~HasRanges(evidence, fp.filePath) \/ EditsOutside(fp, evidence)

WithinEvidence(patch, evidence) ==
  \A f \in 1..Len(patch) : ~FileViolates(patch[f], evidence)

\* C1: patchWithinEvidence accepts a patch only if every FilePatch targets a
\* file with an allowed range and the cursor at every removed and added line
\* lies inside one of that file's ranges; any violation rejects the whole
\* patch with a reason naming the offending file.
C1_ScopeValidatorSound ==
  pc = "scoped" =>
    /\ sOut.status = "ok" => WithinEvidence(sPatch, sEvidence)
    /\ ~WithinEvidence(sPatch, sEvidence) =>
         /\ sOut.status = "rejected"
         /\ \E f \in 1..Len(sPatch) :
              /\ FileViolates(sPatch[f], sEvidence)
              /\ sOut.reason.file = sPatch[f].filePath

\* C5: for every allowed range and every line L in it, both ends included,
\* the hunk that removes line L and adds its replacement right after is
\* accepted.
C5_ReplaceInsideAccepted ==
  ( /\ pc = "scoped"
    /\ Len(sPatch) = 1
    /\ Len(sPatch[1].hunks) = 1
    /\ sPatch[1].hunks[1].lines = <<Rem, Add>>
    /\ Cited(sEvidence, sPatch[1].filePath, sPatch[1].hunks[1].oldStart) )
  => sOut.status = "ok"

\* ---------------------------------------------------- claims on the pipeline
IssueOf(id) == CurrentSlice[id]
GenEvents(id) == SelectSeq(trace, LAMBDA e : e.ev = "gen" /\ e.id = id)
Entered == {trace[k].id : k \in {j \in 1..Len(trace) : trace[j].ev = "enter"}}
OverlayIds == {overlays[k].id : k \in 1..Len(overlays)}
VerifierOkMessages == {"Long function length reduced.", "Duplicate blocks reduced."}
VerifierMessages ==
  VerifierOkMessages \cup {"Long function length did not improve.",
                           "Duplicate blocks did not improve.",
                           "No long function found in evidence range.",
                           "No verification available."}

\* C2: every failure inside the patch pipeline becomes a rejected
\* FixSuggestion; runFixItAgent never throws.
C2_RunNeverThrows == pc # "threw"

\* A text that went through parsing, the emptiness checks and the scope
\* validator for the issue.
Validated(text, issue) ==
  LET p == parseUnifiedDiff(text) IN
  /\ p.ok
  /\ Len(p.patches) > 0
  /\ hasPatchChanges(p.patches)
  /\ patchWithinEvidence(p.patches, buildAllowedRanges(issue)).status = "ok"

\* C3: a suggestion is verified only if its patch text parses, has an add or
\* remove line, passes patchWithinEvidence for the issue's evidence and the
\* verifier said ok; and every overlay was built from such a text.
C3_VerifiedOnlyIfValidated ==
  /\ \A i \in 1..Len(suggestions) :
       suggestions[i].verified =>
         /\ Validated(suggestions[i].patch, IssueOf(suggestions[i].issueId))
         /\ suggestions[i].verificationMessage.t \in VerifierOkMessages
         /\ \E after \in AnalysisAfterSpace :
              Verify(IssueOf(suggestions[i].issueId), after).ok
  /\ \A k \in 1..Len(overlays) : Validated(overlays[k].text, IssueOf(overlays[k].id))

C3_Witness ==
  /\ \E i \in 1..Len(suggestions) : suggestions[i].verified
  /\ \E i \in 1..Len(suggestions) :
       /\ ~suggestions[i].verified
       /\ sources[i] # <<>>
       /\ ~Validated(sources[i], IssueOf(suggestions[i].issueId))

EditsOutsideEvidence(patch, evidence) ==
  \E f \in 1..Len(patch) : EditsOutside(patch[f], evidence)

\* The first FilePatch that breaks the scope edits a line of an evidence
\* file outside its ranges.
FirstViolationIsLine(patch, evidence) ==
  \E f \in 1..Len(patch) :
    /\ HasRanges(evidence, patch[f].filePath)
    /\ EditsOutside(patch[f], evidence)
    /\ \A g \in 1..(f - 1) : ~FileViolates(patch[g], evidence)

RejectedAsOutside(i) ==
  /\ ~suggestions[i].verified
  /\ MatchesOutsideEvidence(suggestions[i].verificationMessage)
  /\ suggestions[i].issueId \notin OverlayIds

\* C4 as stated: whenever the generated patch edits a line outside every
\* evidence range, be it in an evidence file or in a file without evidence
\* ranges, the suggestion is rejected with a message matching
\* "outside evidence" and nothing is applied or verified.
C4_AnyOutsideEditSaysOutsideEvidence ==
  \A i \in 1..Len(suggestions) :
    ( /\ sources[i] # <<>>
      /\ ParseResponse(sources[i]).ok
      /\ EditsOutsideEvidence(ParseResponse(sources[i]).patches,
                              IssueOf(suggestions[i].issueId).evidence) )
    => RejectedAsOutside(i)

\* C4 amended: when the first scope violation of the generated patch is an
\* added or removed line of an evidence file outside that file's ranges,
\* attemptFix returns a rejected suggestion whose message matches
\* "outside evidence", and the patch is neither applied nor verified.
C4_OutsideLineSaysOutsideEvidence ==
  /\ \A i \in 1..Len(suggestions) :
       ( /\ sources[i] # <<>>
         /\ ParseResponse(sources[i]).ok
         /\ FirstViolationIsLine(ParseResponse(sources[i]).patches,
                                 IssueOf(suggestions[i].issueId).evidence) )
       => RejectedAsOutside(i)
  /\ ( pc \in {"apply", "analyze", "threw"} /\ att.patches # <<>> )
       => ~FirstViolationIsLine(att.patches, CurrentIssue.evidence)

C4_Witness ==
  \E i \in 1..Len(suggestions) :
    /\ sources[i] # <<>>
    /\ ParseResponse(sources[i]).ok
    /\ FirstViolationIsLine(ParseResponse(sources[i]).patches,
                            IssueOf(suggestions[i].issueId).evidence)
    /\ suggestions[i].verificationMessage.t = "Patch adds line outside evidence near N in F"
    /\ RejectedAsOutside(i)

\* C6: the generator is called for an issue, and a suggestion emitted for
\* it, only if the guard marked it evidenceComplete and its signal is
\* longFunctions or duplicateBlocks.
MayBeFixed(issue) ==
  /\ issue.evidenceComplete
  /\ issue.signal \in {"longFunctions", "duplicateBlocks"}

C6_OnlyGuardedFixableIssues ==
  /\ \A k \in 1..Len(trace) : trace[k].ev = "gen" => MayBeFixed(IssueOf(trace[k].id))
  /\ \A i \in 1..Len(suggestions) : MayBeFixed(IssueOf(suggestions[i].issueId))

C6_Witness ==
  /\ Len(suggestions) > 0
  /\ \E id \in Entered : ~IssueOf(id).evidenceComplete /\ Len(GenEvents(id)) = 0
  /\ \E n \in 1..Len(insights) : insights[n].signal = "circularDependencies"

\* C7: at most two generator calls per attempted issue; the second uses the
\* retry prompt and follows an invalid first response; an invalid second
\* response ends the attempt with a rejected suggestion.
C7_AtMostOneRetry ==
  \A id \in Entered :
    LET gens == GenEvents(id) IN
    /\ Len(gens) <= 2
    /\ Len(gens) >= 1 => gens[1].prompt = "base"
    /\ Len(gens) = 2 => gens[1].result = "invalid" /\ gens[2].prompt = "retry"
    /\ (Len(gens) = 1 /\ gens[1].result = "invalid") => (pc = "gen2" /\ IssueId = id)
    /\ (Len(gens) = 2 /\ gens[2].result = "invalid") =>
         \E i \in 1..Len(suggestions) :
           /\ suggestions[i].issueId = id
           /\ ~suggestions[i].verified
           /\ suggestions[i].verificationMessage.t
                = ParseResponse(sources[i]).error

C7_Witness ==
  \E id \in Entered :
    /\ Len(GenEvents(id)) = 2
    /\ GenEvents(id)[2].result = "invalid"
    /\ \E i \in 1..Len(suggestions) : suggestions[i].issueId = id

\* C8: at most MAX_FIXES issues are attempted in a run, one after another:
\* an attempt is entered, and the generator called for it, only when every
\* earlier attempt has returned; at most MAX_FIXES suggestions come out.
OpenBefore(k) ==
  {trace[j].id : j \in {m \in 1..(k - 1) : trace[m].ev = "enter"}}
    \ {trace[j].id : j \in {m \in 1..(k - 1) : trace[m].ev = "exit"}}

C8_AtMostMaxFixesInSequence ==
  /\ Cardinality(Entered) <= MAX_FIXES
  /\ Len(suggestions) <= MAX_FIXES
  /\ \A k \in 1..Len(trace) :
       /\ trace[k].ev = "enter" => OpenBefore(k) = {}
       /\ trace[k].ev = "gen" => OpenBefore(k) = {trace[k].id}

C8_Witness ==
  /\ Len(Candidates(insights)) > MAX_FIXES
  /\ Len(suggestions) = MAX_FIXES
  /\ pc = "done"

\* C9 as stated: every suggestion carries the text the generator returned
\* and a non-empty message.
C9_AlwaysCarriesGeneratorText ==
  \A i \in 1..Len(suggestions) :
    /\ suggestions[i].patch = sources[i]
    /\ suggestions[i].verificationMessage.t # ""

\* C9 amended: a suggestion carries the text the generator returned exactly
\* when the patch reached verification; a suggestion rejected before that
\* carries an empty patch; the message is non-empty whenever the generator
\* returned a text.
C9_CarriesTextOnceVerificationRan ==
  \A i \in 1..Len(suggestions) :
    /\ suggestions[i].verificationMessage.t \in VerifierMessages
         => suggestions[i].patch = sources[i] /\ sources[i] # <<>>
    /\ suggestions[i].verificationMessage.t \notin VerifierMessages
         => suggestions[i].patch = <<>> /\ ~suggestions[i].verified
    /\ suggestions[i].verified => suggestions[i].patch # <<>>
    /\ sources[i] # <<>> => suggestions[i].verificationMessage.t # ""

C9_Witness ==
  /\ \E i \in 1..Len(suggestions) :
       suggestions[i].verified /\ suggestions[i].patch = sources[i]
  /\ \E i \in 1..Len(suggestions) :
       suggestions[i].patch = <<>> /\ sources[i] # <<>>

\* C10: git apply gets only the patch text of suggestions that are verified
\* and have a patch; without such a suggestion the outcome is 'skipped' and
\* no git command runs and no branch is made.
RECURSIVE VerifiedTexts(_)
VerifiedTexts(n) ==
  IF n = 0 THEN <<>>
  ELSE IF suggestions[n].verified /\ suggestions[n].patch # <<>>
  THEN Append(VerifiedTexts(n - 1), suggestions[n].patch)
  ELSE VerifiedTexts(n - 1)

C10_OnlyVerifiedReachesDisk ==
  LET texts == VerifiedTexts(Len(suggestions)) IN
  /\ \A k \in 1..Len(gitLog) :
       gitLog[k].cmd = "apply" => texts # <<>> /\ gitLog[k].text = JoinPatches(texts)
  /\ repo.applied # <<>> => repo.applied = JoinPatches(texts)
  /\ (pc = "applied" /\ texts = <<>>) =>
       /\ applyResult.status = "skipped"
       /\ gitLog = <<>>
       /\ repo = CleanRepo
  /\ applyResult.status = "skipped" => texts = <<>>

C10_Witness ==
  /\ pc = "applied"
  /\ applyResult.status = "applied"
  /\ repo.applied # <<>>
  /\ \E i \in 1..Len(suggestions) :
       ~suggestions[i].verified /\ suggestions[i].patch # <<>>


\* ---------------------------------------------- functions run on their own
\* The pipeline at rest, while one function is exercised on its own inputs.
restVars == <<insights, apiKey, readable, idx, att, suggestions, sources, trace,
              overlays, preview, applyVars, scopeVars>>

PipelineAtRest ==
  /\ insights = <<>>
  /\ apiKey = FALSE
  /\ readable = DiskFiles
  /\ idx = 0
  /\ att = NoAtt
  /\ suggestions = <<>>
  /\ sources = <<>>
  /\ trace = <<>>
  /\ overlays = <<>>
  /\ preview = ""
  /\ applyResult = NoApply
  /\ gitLog = <<>>
  /\ repo = CleanRepo
  /\ sPatch = <<>>
  /\ sEvidence = <<>>
  /\ sOut = GuardOk

\* ------------------------------------------------------------ evidence guard
MaxGuardIssues == 2
MaxEvidence == 2

\* Evidence items as the guard may meet them: sound, without a file path,
\* with a line that is not positive, with the range reversed, without
\* metrics, with a negative metric, and with several of these at once.
GuardItems ==
  LET good == Item("a.ts", 1, 2) IN
  { good,
    [good EXCEPT !.file = ""],
    [good EXCEPT !.startLine = 0],
    [good EXCEPT !.startLine = 2, !.endLine = 1],
    [good EXCEPT !.metrics = <<>>],
    [good EXCEPT !.metrics = <<[type |-> "loc", value |-> 0 - 1]>>],
    [good EXCEPT !.file = "", !.startLine = 2, !.endLine = 1, !.metrics = <<>>] }

GuardInputs ==
  SeqsUpTo({RawIssue("maintainability", "longFunctions", ev) :
              ev \in SeqsUpTo(GuardItems, MaxEvidence)},
           MaxGuardIssues)

GuardInit ==
  /\ PipelineAtRest
  /\ pc = "guard"
  /\ fnIn \in GuardInputs
  /\ fnOut = <<>>

GuardRun ==
  /\ pc = "guard"
  /\ fnOut' = runEvidenceGuardAgent(fnIn)
  /\ pc' = "guarded"
  /\ UNCHANGED <<restVars, fnIn>>

GuardNext == GuardRun

SpecGuard == GuardInit /\ [][GuardNext]_vars

\* The reasons the five rules give when they are read rule by rule over the
\* whole evidence list: rule 3 covers both messages about line ranges.
RuleReasons(ev) ==
  LET n == 1..Len(ev) IN
  IF Len(ev) = 0 THEN {"No evidence items provided."}
  ELSE IF \E i \in n : ~isNonEmptyString(ev[i].file)
  THEN {"Evidence item missing file path."}
  ELSE IF \E i \in n : \/ ~isValidLine(ev[i].startLine)
                       \/ ~isValidLine(ev[i].endLine)
                       \/ ev[i].endLine < ev[i].startLine
  THEN {"Evidence item missing line range.", "Evidence item line range is invalid."}
  ELSE IF \E i \in n : Len(ev[i].metrics) = 0 THEN {"Evidence item missing metrics."}
  ELSE IF \E i \in n : \E m \in 1..Len(ev[i].metrics) :
            ev[i].metrics[m].type = "" \/ ev[i].metrics[m].value < 0
  THEN {"Evidence item has invalid metric."}
  ELSE {""}

\* C11: the guard's reason for an issue is the one of the first rule, in the
\* order empty list, file path, line range, no metrics, invalid metric, that
\* any item of the issue breaks; an issue with an item lacking a file path is
\* reported as missing a file path whatever its other items break.
C11_FirstBrokenRuleDecides ==
  pc = "guarded" =>
    \A i \in 1..Len(fnOut) :
      fnOut[i].missingEvidenceReason \in RuleReasons(fnIn[i].evidence)

\* C12: the guard returns one guarded issue per input issue, in the same
\* order and otherwise unchanged; an incomplete one carries a non-empty
\* reason and a complete one carries none.
C12_GuardIsTotal ==
  pc = "guarded" =>
    /\ Len(fnOut) = Len(fnIn)
    /\ \A i \in 1..Len(fnOut) :
         /\ fnOut[i].evidence = fnIn[i].evidence
         /\ fnOut[i].type = fnIn[i].type
         /\ fnOut[i].signal = fnIn[i].signal
         /\ fnOut[i].evidenceComplete \in BOOLEAN
         /\ ~fnOut[i].evidenceComplete => fnOut[i].missingEvidenceReason # ""
         /\ fnOut[i].evidenceComplete => fnOut[i].missingEvidenceReason = ""

C12_Witness ==
  /\ pc = "guarded"
  /\ Len(fnOut) = 2
  /\ fnOut[1].evidenceComplete
  /\ ~fnOut[2].evidenceComplete
  /\ Len(fnOut[2].evidence) = 2

\* --------------------------------------------------------------- diff parser
MaxDiffLines == 4

DiffAlphabet ==
  {Fence, DiffGit, Index, Old("a/a.ts"), New("b/a.ts"), HunkHdr(1), BadHunk,
   JunkHunk(1), Ctx, Add, Rem, Text, Blank}

ParseInit ==
  /\ PipelineAtRest
  /\ pc = "parse"
  /\ fnIn \in SeqsUpTo(DiffAlphabet, MaxDiffLines)
  /\ fnOut = <<>>

ParseRun ==
  /\ pc = "parse"
  /\ fnOut' = parseUnifiedDiff(fnIn)
  /\ pc' = "parsed"
  /\ UNCHANGED <<restVars, fnIn>>

ParseNext == ParseRun

SpecParse == ParseInit /\ [][ParseNext]_vars

\* The first line after position i that is neither blank nor an "index "
\* line, or Len + 1.
RECURSIVE AfterBlankAndIndex(_, _)
AfterBlankAndIndex(lines, j) ==
  IF j > Len(lines) THEN j
  ELSE IF lines[j].k \in {"blank", "index"} THEN AfterBlankAndIndex(lines, j + 1)
  ELSE j

FollowedByNew(lines, i) ==
  LET j == AfterBlankAndIndex(lines, i + 1) IN
  j <= Len(lines) /\ lines[j].k = "new"

\* C13: a text in which some "--- " line is not followed, after blank and
\* "index " lines only, by a "+++ " line does not parse: any other line in
\* between makes parseUnifiedDiff throw.
C13_OnlyBlankAndIndexTolerated ==
  pc = "parsed" =>
    ((\E i \in 1..Len(fnIn) : fnIn[i].k = "old" /\ ~FollowedByNew(fnIn, i))
       => ~fnOut.ok)

\* Whether a file header is current at line i: some "--- " line stands
\* before i with no "diff --git" line between it and i.
HeaderBefore(lines, i) ==
  \E h \in 1..(i - 1) :
    /\ lines[h].k = "old"
    /\ \A g \in (h + 1)..(i - 1) : lines[g].k # "diffgit"

StartsAtAt(line) == line.k \in {"hunk", "badhunk"}
HasHeaderShape(line) == line.k = "hunk" /\ line.p = ""

\* C14: a text with a "@@ " line that has no current file header, or that is
\* not of the shape "@@ -a[,b] +c[,d] @@" with optional trailing text, does
\* not parse, and no FilePatch is returned for it.
C14_StrayOrMisshapenHunkFails ==
  pc = "parsed" =>
    ((\E i \in 1..Len(fnIn) :
        /\ StartsAtAt(fnIn[i])
        /\ ~HeaderBefore(fnIn, i) \/ ~HasHeaderShape(fnIn[i]))
       => ~fnOut.ok /\ fnOut.patches = <<>>)

\* ------------------------------------------------- responses without a change
\* A text that parses to zero FilePatches, or to hunks without any add or
\* remove line, and the reason attemptFix gives for it. (A generator call
\* that throws returns no text: sources holds <<>> for it.)
NoActionablePatch(text) ==
  LET r == parseUnifiedDiff(text) IN
  r.ok /\ (Len(r.patches) = 0 \/ ~hasPatchChanges(r.patches))

NoChangeReason(text) ==
  IF Len(parseUnifiedDiff(text).patches) = 0
  THEN "Empty patch response." ELSE "Patch contains no changes."

\* C15: a response that parses to no FilePatch or has no add or remove line
\* is invalid: no overlay is built from it and it never passes the scope
\* validator; it is answered by the one retry, and when it is the retried
\* response the attempt ends with a rejected suggestion carrying its reason.
C15_NoChangeResponseIsInvalid ==
  /\ \A o \in 1..Len(overlays) : ~NoActionablePatch(overlays[o].text)
  /\ pc \in {"apply", "analyze"} => ~NoActionablePatch(att.patchText)
  /\ (pc = "threw" /\ att.patches # <<>>) => ~NoActionablePatch(att.patchText)
  /\ \A i \in 1..Len(suggestions) :
       (sources[i] # <<>> /\ NoActionablePatch(sources[i])) =>
         LET gens == GenEvents(suggestions[i].issueId) IN
         /\ Len(gens) = 2
         /\ gens[1].result = "invalid"
         /\ gens[2].prompt = "retry"
         /\ gens[2].result = "invalid"
         /\ ~suggestions[i].verified
         /\ suggestions[i].patch = <<>>
         /\ suggestions[i].verificationMessage = PlainMsg(NoChangeReason(sources[i]))

C15_Witness ==
  \E i \in 1..Len(suggestions) :
    /\ sources[i] # <<>>
    /\ NoActionablePatch(sources[i])
    /\ hasPatchChanges(parseUnifiedDiff(sources[i]).patches) = FALSE
    /\ Len(parseUnifiedDiff(sources[i]).patches) > 0
    /\ ~suggestions[i].verified

\* -------------------------------------------------------- verification pass
\* The content runCodeAnalysisAgent analyses for file f. The function takes
\* (config, scan) and reads every file of the scan with fs.readFile; the
\* overrides attemptFix passes as a third argument are not a parameter.
AnalysisReads(overrides, f) == DiskContent(f)

HasOverride(overrides, f) == \E i \in 1..Len(overrides) : overrides[i].file = f
OverrideOf(overrides, f) ==
  overrides[CHOOSE i \in 1..Len(overrides) : overrides[i].file = f].content

\* Lines 589-596 of attemptFix on a parsed patch: the overlay, then the
\* analysis.
PassInit ==
  /\ PipelineAtRest
  /\ pc = "overlay"
  /\ fnIn \in ScopePatchSpace
  /\ fnOut = <<>>

PassOverlayThrows ==
  /\ pc = "overlay"
  /\ ~BuildOverrides(fnIn, 1, <<>>).ok
  /\ pc' = "threw"
  /\ UNCHANGED <<restVars, fnVars>>

PassAnalyses ==
  /\ pc = "overlay"
  /\ LET r == BuildOverrides(fnIn, 1, <<>>) IN
       /\ r.ok
       /\ fnOut' = [overrides |-> r.overrides,
                    analysed |-> [f \in DiskFiles |-> AnalysisReads(r.overrides, f)]]
  /\ pc' = "analysed"
  /\ UNCHANGED <<restVars, fnIn>>

PassNext == PassOverlayThrows \/ PassAnalyses

SpecPass == PassInit /\ [][PassNext]_vars

\* C16: the verification pass analyses the overlay content of every file
\* the patch touches and the disk content of every other file.
C16_AnalysisSeesOverlay ==
  pc = "analysed" =>
    \A f \in DiskFiles :
      fnOut.analysed[f] =
        IF HasOverride(fnOut.overrides, f)
        THEN OverrideOf(fnOut.overrides, f) ELSE DiskContent(f)

\* ------------------------------------------------------------ the verifiers
MaxDup == 3

\* Functions an analysis may list around the evidence a.ts:2-56: the long
\* function itself, shorter versions of it (one still long, one not), a
\* long function that starts on the last evidence line, one that starts
\* right after it, and one in another file.
VerifyFunctions ==
  { LongFn("a.ts", 2, 56),
    LongFn("a.ts", 2, 52),
    LongFn("a.ts", 2, 50),
    LongFn("a.ts", 56, 120),
    LongFn("a.ts", 57, 110),
    LongFn("b.ts", 2, 61) }

VerifyEvidence == {Item("a.ts", 2, 56), Item("a.ts", 57, 60)}

VerifyInputs ==
  {[signal |-> "longFunctions",
    before |-> [longFunctions |-> b, duplicateBlocks |-> 0],
    after |-> [longFunctions |-> a, duplicateBlocks |-> 0],
    evidence |-> e] :
      b \in SUBSET VerifyFunctions, a \in SUBSET VerifyFunctions, e \in VerifyEvidence}
  \cup
  {[signal |-> "duplicateBlocks",
    before |-> [longFunctions |-> {}, duplicateBlocks |-> b],
    after |-> [longFunctions |-> {}, duplicateBlocks |-> a],
    evidence |-> Item("b.ts", 2, 11)] : b \in 0..MaxDup, a \in 0..MaxDup}

VerifyInit ==
  /\ PipelineAtRest
  /\ pc = "verify"
  /\ fnIn \in VerifyInputs
  /\ fnOut = <<>>

VerifyLong ==
  /\ pc = "verify"
  /\ fnIn.signal = "longFunctions"
  /\ fnOut' = verifyLongFunctionFix(fnIn.before, fnIn.after, fnIn.evidence)
  /\ pc' = "verified"
  /\ UNCHANGED <<restVars, fnIn>>

VerifyDuplicate ==
  /\ pc = "verify"
  /\ fnIn.signal = "duplicateBlocks"
  /\ fnOut' = verifyDuplicateFix(fnIn.before, fnIn.after)
  /\ pc' = "verified"
  /\ UNCHANGED <<restVars, fnIn>>

VerifyNext == VerifyLong \/ VerifyDuplicate

SpecVerify == VerifyInit /\ [][VerifyNext]_vars

\* The long functions of an analysis that overlap the evidence range.
LongInRange(analysis, ev) ==
  {fn \in analysis.longFunctions :
     /\ fn.file = ev.file
     /\ fn.length >= LONG_FUNCTION_LOC
     /\ \E n \in ev.startLine..ev.endLine : fn.startLine <= n /\ n <= fn.endLine}

\* C17: verifyLongFunctionFix says ok exactly when a long function
\* overlapped the evidence range before and every long function that
\* overlaps it afterwards (there may be none) is shorter than the longest
\* one before; with none before it fails with "No long function found in
\* evidence range.".
C17_LongFixOkIffShorter ==
  (pc = "verified" /\ fnIn.signal = "longFunctions") =>
    LET b == LongInRange(fnIn.before, fnIn.evidence)
        a == LongInRange(fnIn.after, fnIn.evidence) IN
    /\ fnOut.ok <=> (b # {} /\ \E x \in b : \A y \in a : y.length < x.length)
    /\ b = {} => fnOut.message = "No long function found in evidence range."

C17_Witness ==
  /\ pc = "verified"
  /\ fnIn.signal = "longFunctions"
  /\ fnOut.ok
  /\ LongInRange(fnIn.after, fnIn.evidence) # {}
  /\ fnIn.after.longFunctions # LongInRange(fnIn.after, fnIn.evidence)

\* C18: verifyDuplicateFix says ok exactly when the analysis after the patch
\* counts fewer duplicate blocks than the analysis before it; the same count
\* or a larger one is a rejection.
C18_DuplicateFixOkIffFewer ==
  (pc = "verified" /\ fnIn.signal = "duplicateBlocks") =>
    /\ fnOut.ok <=> fnIn.before.duplicateBlocks - fnIn.after.duplicateBlocks >= 1
    /\ ~fnOut.ok => fnOut.message = "Duplicate blocks did not improve."

C18_Witness ==
  /\ pc = "verified"
  /\ fnIn.signal = "duplicateBlocks"
  /\ ~fnOut.ok
  /\ fnIn.after.duplicateBlocks = fnIn.before.duplicateBlocks
  /\ fnIn.before.duplicateBlocks > 0

\* ------------------------------------------------------ duplicate detection
DUPLICATE_MIN_LINES == 10
DUPLICATE_MAX_LINES == 50
DUPLICATE_MIN_OCCURRENCES == 2

\* The text of a normalized line, as UTF-16 code units: line 10 is "a2",
\* line 11 is "cp", any other line n is the one character of code 96 + n.
LineChars(n) ==
  CASE n = 10 -> <<97, 50>>
    [] n = 11 -> <<99, 112>>
    [] OTHER -> <<96 + n>>

\* a ^ b on non-negative integers
RECURSIVE Xor(_, _)
Xor(a, b) ==
  IF a = 0 THEN b
  ELSE IF b = 0 THEN a
  ELSE (((a % 2) + (b % 2)) % 2) + 2 * Xor(a \div 2, b \div 2)

\* One round of hashString, hash = (hash * 33) ^ code, on 32 bits; the
\* value is kept as its two 16-bit halves.
HalfWord == 65536
HashStep(h, code) ==
  [hi |-> ((h.hi * 33) + ((h.lo * 33) \div HalfWord)) % HalfWord,
   lo |-> Xor((h.lo * 33) % HalfWord, code)]

RECURSIVE HashChars(_, _, _)
HashChars(h, chars, i) ==
  IF i > Len(chars) THEN h ELSE HashChars(HashStep(h, chars[i]), chars, i + 1)

\* The rounds over lines.join("\n"): the code units of each line, with a
\* line feed (10) before every line but the first.
RECURSIVE HashLines(_, _, _)
HashLines(h, lines, i) ==
  IF i > Len(lines) THEN h
  ELSE HashLines(HashChars(IF i = 1 THEN h ELSE HashStep(h, 10), LineChars(lines[i]), 1),
                 lines, i + 1)

\* hashString(lines.join("\n")), from 5381
hashString(lines) == HashLines([hi |-> 0, lo |-> 5381], lines, 1)

\* A NormalizedFile: its normalized lines (an integer stands for a line's
\* text) and, per normalized line, its line number in the file.
NormalizedFile(path, lines) ==
  [path |-> path, normalizedLines |-> lines,
   lineNumbers |-> [i \in 1..Len(lines) |-> i]]

\* lines.slice(start, start + length), with start counted from 1
BlockText(file, start, length) ==
  SubSeq(file.normalizedLines, start, start + length - 1)

\* The window starts of a file: none when it is shorter than the window.
WindowStarts(file) == 1..(Len(file.normalizedLines) - DUPLICATE_MIN_LINES + 1)

\* candidates: the windows grouped by their text; an occurrence is the
\* index of its file in files and the start of the window.
AllWindows(files) ==
  UNION {{[f |-> f, s |-> st] : st \in WindowStarts(files[f])} : f \in 1..Len(files)}

\* windows grouped by the hash of their text
OccurrencesOf_ByHash(files, key) ==
  {o \in AllWindows(files) :
     hashString(BlockText(files[o.f], o.s, DUPLICATE_MIN_LINES)) = hashString(key)}

OccurrencesOf(files, key) ==
  {o \in AllWindows(files) :
     BlockText(files[o.f], o.s, DUPLICATE_MIN_LINES) = key}

CandidateKeys(files) ==
  {BlockText(files[o.f], o.s, DUPLICATE_MIN_LINES) : o \in AllWindows(files)}

\* occurrences[0]: the first window met, files in order, starts ascending
Baseline(occurrences) ==
  CHOOSE b \in occurrences :
    \A o \in occurrences : b.f < o.f \/ (b.f = o.f /\ b.s <= o.s)

\* Whether every occurrence has, `offset` lines after its start, the line
\* the baseline has there.
AllMatch(files, occurrences, offset) ==
  LET base == Baseline(occurrences)
      expected == files[base.f].normalizedLines[base.s + offset] IN
  \A o \in occurrences :
    /\ o.s + offset <= Len(files[o.f].normalizedLines)
    /\ files[o.f].normalizedLines[o.s + offset] = expected

\* no extension: every block keeps the window's length
ExtendLength_FixedWindow(files, occurrences, length) == DUPLICATE_MIN_LINES

\* The extension loop: length grows by one line while the block is shorter
\* than DUPLICATE_MAX_LINES, the baseline has a next line and all
\* occurrences agree on it.
RECURSIVE ExtendLength(_, _, _)
ExtendLength(files, occurrences, length) ==
  LET base == Baseline(occurrences) IN
  IF length >= DUPLICATE_MAX_LINES THEN length
  ELSE IF base.s + length > Len(files[base.f].normalizedLines) THEN length
  ELSE IF ~AllMatch(files, occurrences, length) THEN length
  ELSE ExtendLength(files, occurrences, length + 1)

\* The occurrences of a block of the given length, as (file, startLine,
\* endLine), one per distinct triple.
BlockOccurrences(files, occurrences, length) ==
  {[file |-> files[o.f].path,
    startLine |-> files[o.f].lineNumbers[o.s],
    endLine |-> files[o.f].lineNumbers[o.s + length - 1]] :
     o \in {x \in occurrences : x.s + length - 1 <= Len(files[x.f].lineNumbers)}}

\* One entry per extended text; candidates that converge on the same text
\* share the entry. Entries with fewer than two occurrences are dropped.
collectDuplicateBlocks(files) ==
  LET groups == {OccurrencesOf(files, key) : key \in CandidateKeys(files)}
      dup == {g \in groups : Cardinality(g) >= DUPLICATE_MIN_OCCURRENCES}
      LengthOf(g) == ExtendLength(files, g, DUPLICATE_MIN_LINES)
      TextOf(g) == BlockText(files[Baseline(g).f], Baseline(g).s, LengthOf(g))
      entries ==
        {[text |-> t,
          length |-> Len(t),
          occurrences |->
            UNION {BlockOccurrences(files, g, LengthOf(g)) : g \in {x \in dup : TextOf(x) = t}}] :
           t \in {TextOf(g) : g \in dup}}
  IN {e \in entries : Cardinality(e.occurrences) >= DUPLICATE_MIN_OCCURRENCES}

\* block.hash: the hash of the extended text, stored in the block
HashOfBlock(block) == hashString(block.text)

\* Files made of two copies of a block of distinct lines, the copies of
\* different or equal length around the window size and the cap, with or
\* without a filler line before, between and after them.
Filler == <<0>>
Block(n) == [i \in 1..n |-> i]
BlockLengths ==
  {DUPLICATE_MIN_LINES - 1, DUPLICATE_MIN_LINES, DUPLICATE_MIN_LINES + 1,
   DUPLICATE_MAX_LINES, DUPLICATE_MAX_LINES + 1}

DuplicateInputs ==
  LET pad == {<<>>, Filler}
      first == {NormalizedFile("a.ts", pre \o Block(n) \o sep \o Block(m) \o suf) :
                  pre \in pad, sep \in pad, suf \in pad,
                  n \in BlockLengths, m \in BlockLengths}
      second == {<<>>, <<NormalizedFile("b.ts", Block(DUPLICATE_MIN_LINES))>>,
                 <<NormalizedFile("b.ts", Filler \o Block(DUPLICATE_MIN_LINES + 1))>>}
  IN {<<x>> \o y : x \in first, y \in second}

DuplicatesInit ==
  /\ PipelineAtRest
  /\ pc = "duplicates"
  /\ fnIn \in DuplicateInputs
  /\ fnOut = <<>>

DuplicatesRun ==
  /\ pc = "duplicates"
  /\ fnOut' = collectDuplicateBlocks(fnIn)
  /\ pc' = "duplicatesDone"
  /\ UNCHANGED <<restVars, fnIn>>

DuplicatesNext == DuplicatesRun

SpecDuplicates == DuplicatesInit /\ [][DuplicatesNext]_vars

\* The normalized lines of the file an occurrence lies in.
LinesOf(files, occ) ==
  files[CHOOSE f \in 1..Len(files) : files[f].path = occ.file].normalizedLines

\* All occurrences of the block have a line after (before) the block, and
\* these lines are the same text.
ExtendableAtEnd(files, block) ==
  /\ \A o \in block.occurrences : o.endLine + 1 <= Len(LinesOf(files, o))
  /\ \A o1, o2 \in block.occurrences :
       LinesOf(files, o1)[o1.endLine + 1] = LinesOf(files, o2)[o2.endLine + 1]

ExtendableAtStart(files, block) ==
  /\ \A o \in block.occurrences : o.startLine - 1 >= 1
  /\ \A o1, o2 \in block.occurrences :
       LinesOf(files, o1)[o1.startLine - 1] = LinesOf(files, o2)[o2.startLine - 1]

\* C19: no reported duplicate block can be made one line longer, at either
\* end of its occurrences, with all occurrences still equal.
C19_BlocksAreMaximal ==
  pc = "duplicatesDone" =>
    \A b \in fnOut : ~ExtendableAtEnd(fnIn, b) /\ ~ExtendableAtStart(fnIn, b)

\* C19 as the code has it: a reported block has at least two occurrences
\* that are the same text, is at least a window and at most
\* DUPLICATE_MAX_LINES long, and unless it is that long it cannot be made
\* one line longer at its end.
C19_BlocksAreMaximalForwardUpToCap ==
  pc = "duplicatesDone" =>
    \A b \in fnOut :
      /\ Cardinality(b.occurrences) >= DUPLICATE_MIN_OCCURRENCES
      /\ b.length >= DUPLICATE_MIN_LINES
      /\ b.length <= DUPLICATE_MAX_LINES
      /\ \A o \in b.occurrences :
           /\ o.endLine - o.startLine + 1 = b.length
           /\ SubSeq(LinesOf(fnIn, o), o.startLine, o.endLine) = b.text
      /\ b.length < DUPLICATE_MAX_LINES => ~ExtendableAtEnd(fnIn, b)

C19_Witness ==
  /\ pc = "duplicatesDone"
  /\ Len(fnIn) = 2
  /\ \E b \in fnOut :
       /\ b.length > DUPLICATE_MIN_LINES
       /\ b.length < DUPLICATE_MAX_LINES
       /\ \E o \in b.occurrences : o.file = "b.ts"
       /\ \A o \in b.occurrences : o.endLine + 1 <= Len(LinesOf(fnIn, o))

\* ----------------------------------------------------------- import cycles
\* A path is the sequence of its pieces: a file name, or file names joined
\* by "::" (a legal file name character pair on POSIX file systems).
PathA == <<"a.ts">>
PathC == <<"c.ts">>
PathAB == <<"a.ts", "::", "b.ts">>
PathBC == <<"b.ts", "::", "c.ts">>
CyclePaths == {PathA, PathC, PathAB, PathBC}

\* Code unit order of the first characters of the pieces: ":" sorts before
\* the letters.
PieceRank(piece) ==
  CASE piece = "::" -> 0
    [] piece = "a.ts" -> 1
    [] piece = "b.ts" -> 2
    [] piece = "c.ts" -> 3

\* p sorts before q, or is q (Array.prototype.sort on strings)
RECURSIVE SortsFirst(_, _)
SortsFirst(p, q) ==
  IF p = <<>> THEN TRUE
  ELSE IF q = <<>> THEN FALSE
  ELSE IF PieceRank(Head(p)) < PieceRank(Head(q)) THEN TRUE
  ELSE IF PieceRank(Head(p)) > PieceRank(Head(q)) THEN FALSE
  ELSE SortsFirst(Tail(p), Tail(q))

\* [from, to].sort().join("::")
CycleKey(from, to) ==
  IF SortsFirst(from, to) THEN from \o <<"::">> \o to ELSE to \o <<"::">> \o from

\* An import specifier: relative ("./x") to a file of the same directory,
\* or a package name, which resolveImportPath does not resolve.
Relative(path) == [relative |-> TRUE, target |-> path]
Package == [relative |-> FALSE, target |-> <<"lodash">>]

\* JS_TS_EXTENSIONS, in the order the Set iterates
JS_TS_EXTENSIONS == <<".ts", ".tsx", ".js", ".jsx", ".mjs", ".cjs">>

\* path.posix.extname: the extension of the last piece of a path; a piece
\* is a name without a dot, an extension, a separator, or a whole file name.
extname(path) ==
  IF path = <<>> THEN ""
  ELSE
    LET last == path[Len(path)] IN
    IF last \in {"a.ts", "b.ts", "c.ts"} THEN ".ts"
    ELSE IF last \in {".ts", ".tsx", ".js", ".jsx", ".mjs", ".cjs", ".config"} THEN last
    ELSE ""

\* path.posix.dirname, with the separator that join puts behind it
RECURSIVE dirname(_)
dirname(path) ==
  IF path = <<>> THEN <<>>
  ELSE IF path[Len(path)] = "/" THEN path
  ELSE dirname(SubSeq(path, 1, Len(path) - 1))

\* The candidates in the order they are tried: `combined` alone when it
\* has an extension; otherwise, extension by extension, the file and then
\* the index file of the directory.
RECURSIVE CandidatesFrom(_, _)
CandidatesFrom(combined, e) ==
  IF e > Len(JS_TS_EXTENSIONS) THEN <<>>
  ELSE <<combined \o <<JS_TS_EXTENSIONS[e]>>,
         combined \o <<"/", "index", JS_TS_EXTENSIONS[e]>>>>
         \o CandidatesFrom(combined, e + 1)

ImportCandidates(combined) ==
  IF extname(combined) # "" THEN <<combined>> ELSE CandidatesFrom(combined, 1)

\* The first element of candidates that is in filePaths; <<>> stands for null.
FirstIndexed(candidates, filePaths) ==
  LET hits == SelectSeq(candidates, LAMBDA c : c \in filePaths) IN
  IF hits = <<>> THEN <<>> ELSE hits[1]

\* A specifier is relative (it starts with ".") or not; its target is the
\* path it names from the directory of the importing file.
resolveImportPath(importerPath, specifier, filePaths) ==
  IF ~specifier.relative THEN <<>>
  ELSE FirstIndexed(ImportCandidates(dirname(importerPath) \o specifier.target), filePaths)

\* The resolved targets of a file, in the order of its import statements,
\* each once (a Set keeps insertion order).
RECURSIVE Targets(_, _, _, _)
Targets(importerPath, imports, filePaths, acc) ==
  IF imports = <<>> THEN acc
  ELSE
    LET resolved == resolveImportPath(importerPath, Head(imports), filePaths) IN
    IF resolved = <<>> \/ \E i \in 1..Len(acc) : acc[i] = resolved
    THEN Targets(importerPath, Tail(imports), filePaths, acc)
    ELSE Targets(importerPath, Tail(imports), filePaths, Append(acc, resolved))

RECURSIVE Edges(_, _, _)
Edges(files, filePaths, f) ==
  IF f > Len(files) THEN <<>>
  ELSE
    LET targets == Targets(files[f].path, files[f].imports, filePaths, <<>>) IN
    [i \in 1..Len(targets) |-> [from |-> files[f].path, to |-> targets[i]]]
      \o Edges(files, filePaths, f + 1)

\* every edge of the graph is taken for a cycle
ScanEdges_EveryEdge(edges, e, seen, cycles) ==
  [i \in 1..Len(edges) |-> [from |-> edges[i].from, to |-> edges[i].to]]

\* The loop over the graph: an edge whose reverse is in the graph gives a
\* cycle unless its key was seen.
RECURSIVE ScanEdges(_, _, _, _)
ScanEdges(edges, e, seen, cycles) ==
  IF e > Len(edges) THEN cycles
  ELSE
    LET from == edges[e].from
        to == edges[e].to
        key == CycleKey(from, to) IN
    IF ~(\E r \in 1..Len(edges) : edges[r].from = to /\ edges[r].to = from)
    THEN ScanEdges(edges, e + 1, seen, cycles)
    ELSE IF key \in seen THEN ScanEdges(edges, e + 1, seen, cycles)
    ELSE ScanEdges(edges, e + 1, seen \cup {key}, Append(cycles, [from |-> from, to |-> to]))

collectCircularDependencies(files, filePaths) ==
  ScanEdges(Edges(files, filePaths, 1), 1, {}, <<>>)

\* Four files in two orders; each imports any of the others, a.ts may
\* import itself too; every import statement may stand twice, next to an
\* import of a package.
SetToSeq(S) ==
  LET order == <<PathA, PathAB, PathBC, PathC>> IN
  SelectSeq(order, LAMBDA p : p \in S)

Reverse(s) == [i \in 1..Len(s) |-> s[Len(s) + 1 - i]]

ImportLists(path) ==
  LET others == IF path = PathA THEN CyclePaths ELSE CyclePaths \ {path}
      once(S) == [i \in 1..Len(SetToSeq(S)) |-> Relative(SetToSeq(S)[i])]
  IN {once(S) : S \in SUBSET others}

CycleInputs ==
  LET plain ==
        {<<[path |-> PathA, imports |-> ia], [path |-> PathAB, imports |-> iab],
           [path |-> PathBC, imports |-> ibc], [path |-> PathC, imports |-> ic]>> :
           ia \in ImportLists(PathA), iab \in ImportLists(PathAB),
           ibc \in ImportLists(PathBC), ic \in ImportLists(PathC)}
      twice(files) ==
        [i \in 1..Len(files) |->
           [files[i] EXCEPT !.imports = @ \o <<Package>> \o Reverse(@)]]
  IN plain \cup {Reverse(twice(files)) : files \in plain}

CyclesInit ==
  /\ PipelineAtRest
  /\ pc = "cycles"
  /\ fnIn \in CycleInputs
  /\ fnOut = <<>>

CyclesRun ==
  /\ pc = "cycles"
  /\ fnOut' = collectCircularDependencies(fnIn, {fnIn[i].path : i \in 1..Len(fnIn)})
  /\ pc' = "cyclesDone"
  /\ UNCHANGED <<restVars, fnIn>>

CyclesNext == CyclesRun

SpecCycles == CyclesInit /\ [][CyclesNext]_vars

\* File `from` has an import statement that resolves to file `to`.
Imports(files, from, to) ==
  \E f \in 1..Len(files) :
    /\ files[f].path = from
    /\ \E i \in 1..Len(files[f].imports) :
         files[f].imports[i] = Relative(to)

ReportedFor(cycles, p, q) ==
  {c \in 1..Len(cycles) : {cycles[c].from, cycles[c].to} = {p, q}}

\* C20: for every two files that import each other exactly one cycle is
\* reported, however many import statements there are and whatever the
\* order of the files; for two files that do not import each other none is,
\* whatever longer cycle they lie on.
C20_OneCyclePerReciprocalPair ==
  pc = "cyclesDone" =>
    \A p \in CyclePaths : \A q \in CyclePaths :
      Cardinality(ReportedFor(fnOut, p, q))
        = IF Imports(fnIn, p, q) /\ Imports(fnIn, q, p) THEN 1 ELSE 0

\* --------------------------------------------------------- function lengths
MaxNodes == 2

\* The function-like nodes of one source file in the order ts.forEachChild
\* visits them: the 0-based lines of getStart() and getEnd(), and whether
\* the node has a body (an overload signature or an abstract method has none).
FunctionStarts == {0, 1}
FunctionExtents == {0, 48, 49, 50}
FunctionNodes ==
  [name : {"f"}, start : FunctionStarts, extent : FunctionExtents, body : BOOLEAN]

EndLineOf(node) == node.start + node.extent

\* The record pushed for one node with a body.
FunctionRecord(filePath, node) ==
  [file |-> filePath, name |-> node.name, length |-> EndLineOf(node) - node.start + 1]

RECURSIVE collectFunctionLengths(_, _)
collectFunctionLengths(nodes, filePath) ==
  IF nodes = <<>> THEN <<>>
  ELSE IF Head(nodes).body
    THEN <<FunctionRecord(filePath, Head(nodes))>>
           \o collectFunctionLengths(Tail(nodes), filePath)
    ELSE collectFunctionLengths(Tail(nodes), filePath)

\* allFunctions.filter((fn) => fn.length >= LONG_FUNCTION_LOC)
longFunctions(allFunctions) ==
  SelectSeq(allFunctions, LAMBDA fn : fn.length >= LONG_FUNCTION_LOC)

FunctionsInit ==
  /\ PipelineAtRest
  /\ pc = "functions"
  /\ fnIn \in UNION {[1..n -> FunctionNodes] : n \in 0..MaxNodes}
  /\ fnOut = <<>>

FunctionsRun ==
  /\ pc = "functions"
  /\ LET allFunctions == collectFunctionLengths(fnIn, "src/long.ts") IN
       fnOut' = [allFunctions |-> allFunctions,
                 longFunctions |-> longFunctions(allFunctions)]
  /\ pc' = "functionsDone"
  /\ UNCHANGED <<restVars, fnIn>>

FunctionsNext == FunctionsRun

SpecFunctions == FunctionsInit /\ [][FunctionsNext]_vars

WithBody(nodes) == SelectSeq(nodes, LAMBDA node : node.body)

\* C21: every function-like node with a body yields one span that carries
\* startLine and endLine with endLine >= startLine and
\* length = endLine - startLine + 1 >= 1, and the long-function signal holds
\* exactly the spans of length 50 or more.
C21_SpansCarryTheirLines ==
  pc = "functionsDone" =>
    /\ Len(fnOut.allFunctions) = Len(WithBody(fnIn))
    /\ \A i \in 1..Len(fnOut.allFunctions) :
         LET span == fnOut.allFunctions[i] IN
           /\ {"startLine", "endLine"} \subseteq DOMAIN span
           /\ span.endLine >= span.startLine
           /\ span.length = span.endLine - span.startLine + 1
           /\ span.length >= 1
    /\ fnOut.longFunctions
         = SelectSeq(fnOut.allFunctions, LAMBDA span : span.length >= 50)

\* What the code does keep of the claim: one record per node with a body,
\* its length the number of lines from the first to the last.
C21_LengthsAreLineCounts ==
  pc = "functionsDone" =>
    /\ Len(fnOut.allFunctions) = Len(WithBody(fnIn))
    /\ \A i \in 1..Len(fnOut.allFunctions) :
         /\ fnOut.allFunctions[i].length = WithBody(fnIn)[i].extent + 1
         /\ fnOut.allFunctions[i].length >= 1
    /\ \A i \in 1..Len(fnOut.allFunctions) :
         (fnOut.allFunctions[i].length >= 50)
           <=> (\E j \in 1..Len(fnOut.longFunctions) :
                  fnOut.longFunctions[j] = fnOut.allFunctions[i])

\* ------------------------------------------------------------------ narrator
MaxNarrated == 2
MaxItems == 2

NarratorSignals == {"longFunctions", "testPresence"}

\* Guarded issues; a complete issue carries one evidence item, an incomplete
\* one an evidence item the guard found broken.
NarratorIssues == [signal : NarratorSignals, evidenceComplete : BOOLEAN]

buildLaymanMessage(issue) ==
  IF ~issue.evidenceComplete THEN "not enough data"
  ELSE CASE issue.signal = "longFunctions" ->
              "Very long functions can be hard to maintain, for example a.ts lines 2-56."
         [] issue.signal = "testPresence" -> "not enough data"

\* "" stands for null
buildActionItem(issue) ==
  IF ~issue.evidenceComplete
  THEN IF issue.signal = "testPresence"
       THEN "Add at least one test file to cover critical paths." ELSE ""
  ELSE CASE issue.signal = "longFunctions" ->
              "Split a.ts around lines 2-56 into smaller helpers."
         [] issue.signal = "testPresence" ->
              "Add at least one test file to cover critical paths."

formatIssueLine(index, issue, message, showDetails) ==
  [index |-> index, signal |-> issue.signal, message |-> message,
   details |-> showDetails]

\* Texts the model may send for an issue, and what normalizeGeminiText
\* (runs of white space to one space, trimmed) makes of them.
GeminiTexts == {"a.ts has a very  long function.", " Not  enough DATA ", "  "}

normalizeGeminiText(value) ==
  CASE value = "a.ts has a very  long function." -> "a.ts has a very long function."
    [] value = " Not  enough DATA " -> "Not enough DATA"
    [] value = "  " -> ""

toLowerCase(value) ==
  CASE value = "Not enough DATA" -> "not enough data"
    [] OTHER -> value

\* An element of the parsed array: an {id, text} object, or something else
\* (null, an id that is a string, a text that is missing).
Malformed == [id |-> 0, text |-> "", typed |-> FALSE]
GeminiItems ==
  [id : 1..MaxNarrated, text : GeminiTexts, typed : {TRUE}] \cup {Malformed}

\* What callGeminiNarrator and extractJsonArray give: the call throws, the
\* text holds no JSON array, or an array is parsed.
GeminiThrows == [kind |-> "throws", items |-> <<>>]
GeminiNoArray == [kind |-> "noArray", items |-> <<>>]
GeminiReplies ==
  {GeminiThrows, GeminiNoArray}
    \cup {[kind |-> "array", items |-> items] :
            items \in UNION {[1..n -> GeminiItems] : n \in 0..MaxItems}}

\* byId after the loop over the parsed items: the last typed item of an id
\* wins; "" stands for no entry (an empty text is as falsy as undefined).
RECURSIVE ById(_, _)
ById(items, id) ==
  IF items = <<>> THEN ""
  ELSE
    LET last == items[Len(items)] IN
    IF last.typed /\ last.id = id THEN normalizeGeminiText(last.text)
    ELSE ById(SubSeq(items, 1, Len(items) - 1), id)

FallbackLines(issues, showDetails) ==
  [i \in 1..Len(issues) |->
     formatIssueLine(i - 1, issues[i], buildLaymanMessage(issues[i]), showDetails)]

ActionItems(issues) ==
  SelectSeq([i \in 1..Len(issues) |-> buildActionItem(issues[i])],
            LAMBDA item : item # "")

GeminiLine_Unguarded(issues, items, showDetails, i) ==
  LET geminiText == ById(items, i) IN
  IF geminiText = "" THEN FallbackLines(issues, showDetails)[i]
  ELSE IF toLowerCase(geminiText) = "not enough data"
    THEN FallbackLines(issues, showDetails)[i]
  ELSE formatIssueLine(i - 1, issues[i], geminiText, showDetails)

GeminiLine(issues, items, showDetails, i) ==
  IF ~issues[i].evidenceComplete
  THEN formatIssueLine(i - 1, issues[i], "not enough data", showDetails)
  ELSE
    LET geminiText == ById(items, i) IN
    IF geminiText = "" THEN FallbackLines(issues, showDetails)[i]
    ELSE IF toLowerCase(geminiText) = "not enough data"
      THEN FallbackLines(issues, showDetails)[i]
    ELSE formatIssueLine(i - 1, issues[i], geminiText, showDetails)

\* fnIn: the guarded issues, config.showDetails, whether GEMINI_API_KEY is
\* set, and the reply of the model when it is asked.
NarratorInputs ==
  {[issues |-> issues, showDetails |-> d, key |-> k, reply |-> r] :
     issues \in UNION {[1..n -> NarratorIssues] : n \in 0..MaxNarrated},
     d \in BOOLEAN, k \in BOOLEAN, r \in GeminiReplies}

NarratorInit ==
  /\ PipelineAtRest
  /\ pc = "narrate"
  /\ fnIn \in {in \in NarratorInputs :
                 (in.issues = <<>> \/ ~in.key) => in.reply = GeminiThrows}
  /\ fnOut = <<>>

NarrateNoIssues ==
  /\ pc = "narrate"
  /\ fnIn.issues = <<>>
  /\ fnOut' = [lines |-> <<>>, usedGemini |-> FALSE, actionItems |-> <<>>]
  /\ pc' = "narrated"
  /\ UNCHANGED <<restVars, fnIn>>

NarrateWithoutKey ==
  /\ pc = "narrate"
  /\ fnIn.issues # <<>>
  /\ ~fnIn.key
  /\ fnOut' = [lines |-> FallbackLines(fnIn.issues, fnIn.showDetails),
               usedGemini |-> FALSE,
               actionItems |-> ActionItems(fnIn.issues)]
  /\ pc' = "narrated"
  /\ UNCHANGED <<restVars, fnIn>>

NarrateFallback ==
  /\ pc = "narrate"
  /\ fnIn.issues # <<>>
  /\ fnIn.key
  /\ fnIn.reply.kind \in {"throws", "noArray"}
  /\ fnOut' = [lines |-> FallbackLines(fnIn.issues, fnIn.showDetails),
               usedGemini |-> FALSE,
               actionItems |-> ActionItems(fnIn.issues)]
  /\ pc' = "narrated"
  /\ UNCHANGED <<restVars, fnIn>>

NarrateGemini ==
  /\ pc = "narrate"
  /\ fnIn.issues # <<>>
  /\ fnIn.key
  /\ fnIn.reply.kind = "array"
  /\ fnOut' = [lines |-> [i \in 1..Len(fnIn.issues) |->
                            GeminiLine(fnIn.issues, fnIn.reply.items,
                                       fnIn.showDetails, i)],
               usedGemini |-> TRUE,
               actionItems |-> <<>>]
  /\ pc' = "narrated"
  /\ UNCHANGED <<restVars, fnIn>>

NarratorNext ==
  \/ NarrateNoIssues
  \/ NarrateWithoutKey
  \/ NarrateFallback
  \/ NarrateGemini

SpecNarrator == NarratorInit /\ [][NarratorNext]_vars

MaxApplyLines == 3

\* content.split(/\r?\n/) has at least one line
ApplyContents == {Iota(n) : n \in 1..MaxApplyLines}

\* A first hunk with any body, and perhaps a second hunk of one line.
ApplyHunkSpace ==
  {[oldStart |-> n, lines |-> b] :
     n \in 0..(MaxApplyLines + 2), b \in SeqsUpTo({Ctx, Add, Rem, Text}, MaxBody)}

ApplySecondHunks ==
  {<<>>} \cup {<<[oldStart |-> n, lines |-> <<x>>]>> :
                 n \in 0..(MaxApplyLines + 2), x \in {Ctx, Add, Rem}}

ApplyInputs ==
  {[content |-> c, patch |-> [filePath |-> "a.ts", hunks |-> <<h>> \o more]] :
     c \in ApplyContents, h \in ApplyHunkSpace, more \in ApplySecondHunks}

ApplyInit ==
  /\ PipelineAtRest
  /\ pc = "applyPatch"
  /\ fnIn \in ApplyInputs
  /\ fnOut = <<>>

ApplyThrows ==
  /\ pc = "applyPatch"
  /\ ~applyPatchToContent(fnIn.content, fnIn.patch).ok
  /\ fnOut' = applyPatchToContent(fnIn.content, fnIn.patch)
  /\ pc' = "applyThrew"
  /\ UNCHANGED <<restVars, fnIn>>

ApplyReturns ==
  /\ pc = "applyPatch"
  /\ applyPatchToContent(fnIn.content, fnIn.patch).ok
  /\ fnOut' = applyPatchToContent(fnIn.content, fnIn.patch)
  /\ pc' = "applyReturned"
  /\ UNCHANGED <<restVars, fnIn>>

ApplyNext == ApplyThrows \/ ApplyReturns

SpecApply == ApplyInit /\ [][ApplyNext]_vars

CountOf(lines, kinds) == Len(SelectSeq(lines, LAMBDA line : line.k \in kinds))

\* The lines of the content a hunk replays: its context and removed lines.
Consumed(hunk) == CountOf(hunk.lines, {"ctx", "rem"})

StartsOutside(content, hunk) ==
  hunk.oldStart - 1 < 0 \/ hunk.oldStart - 1 > Len(content)

RunsPastEnd(content, hunk) ==
  hunk.oldStart - 1 + Consumed(hunk) > Len(content)

\* C23: applyPatchToContent fails whenever a hunk starts outside the
\* content or its context and removed lines run past the last line.
C23_FailsWhenHunkLeavesContent ==
  pc \in {"applyThrew", "applyReturned"} =>
    ((\E h \in 1..Len(fnIn.patch.hunks) :
        \/ StartsOutside(fnIn.content, fnIn.patch.hunks[h])
        \/ RunsPastEnd(fnIn.content, fnIn.patch.hunks[h]))
      => ~fnOut.ok)

\* What the code does check: the start of each hunk.
C23_FailsWhenHunkStartsOutside ==
  pc \in {"applyThrew", "applyReturned"} =>
    ((\E h \in 1..Len(fnIn.patch.hunks) :
        StartsOutside(fnIn.content, fnIn.patch.hunks[h]))
      => ~fnOut.ok)

\* The hunks hold context, added and removed lines only, each starts inside
\* the content or right behind its last line, replays lines of the content
\* only, and starts no earlier than the previous hunk ends.
InOrderWithin(content, hunks) ==
  /\ \A h \in 1..Len(hunks) :
       /\ \A j \in 1..Len(hunks[h].lines) : hunks[h].lines[j].k \in {"ctx", "add", "rem"}
       /\ ~StartsOutside(content, hunks[h])
       /\ ~RunsPastEnd(content, hunks[h])
  /\ \A h \in 1..(Len(hunks) - 1) :
       hunks[h + 1].oldStart >= hunks[h].oldStart + Consumed(hunks[h])

Covered(hunks, n) ==
  \E h \in 1..Len(hunks) :
    hunks[h].oldStart <= n /\ n < hunks[h].oldStart + Consumed(hunks[h])

RECURSIVE SumOver(_, _)
SumOver(hunks, kinds) ==
  IF hunks = <<>> THEN 0
  ELSE CountOf(Head(hunks).lines, kinds) + SumOver(Tail(hunks), kinds)

\* C25: for hunks in ascending order that stay within the content, the
\* lines before the first hunk and behind the last one are copied, every
\* line of the content no hunk covers appears once and in order, context
\* and added lines are emitted and removed lines are not, so the output has
\* input + added - removed lines.
C25_ReplaysHunksOverContent ==
  (pc \in {"applyThrew", "applyReturned"}
     /\ InOrderWithin(fnIn.content, fnIn.patch.hunks)) =>
    LET hunks == fnIn.patch.hunks
        first == hunks[1]
        last == hunks[Len(hunks)]
        tail == Len(fnIn.content) - (last.oldStart - 1 + Consumed(last))
        out == fnOut.content
    IN
      /\ fnOut.ok
      /\ Len(out) = Len(fnIn.content) + SumOver(hunks, {"add"}) - SumOver(hunks, {"rem"})
      /\ SelectSeq(out, LAMBDA x : x > 0)
           = SelectSeq(fnIn.content, LAMBDA n : ~Covered(hunks, n))
      /\ CountOf([i \in 1..Len(out) |-> [k |-> IF out[i] = 0 THEN "emitted" ELSE "kept"]],
                 {"emitted"})
           = SumOver(hunks, {"ctx", "add"})
      /\ SubSeq(out, 1, first.oldStart - 1) = SubSeq(fnIn.content, 1, first.oldStart - 1)
      /\ SubSeq(out, Len(out) - tail + 1, Len(out))
           = SubSeq(fnIn.content, Len(fnIn.content) - tail + 1, Len(fnIn.content))

\* Two hunks: the first replaces line 1 by a new line, the second removes
\* the last line; the line between them is kept.
C25_Witness ==
  /\ pc = "applyReturned"
  /\ InOrderWithin(fnIn.content, fnIn.patch.hunks)
  /\ Len(fnIn.content) = MaxApplyLines
  /\ Len(fnIn.patch.hunks) = 2
  /\ fnIn.patch.hunks[1] = [oldStart |-> 1, lines |-> <<Rem, Add>>]
  /\ fnIn.patch.hunks[2] = [oldStart |-> MaxApplyLines, lines |-> <<Rem>>]
  /\ Len(fnOut.content) = MaxApplyLines - 1
  /\ fnOut.content[1] = 0
  /\ fnOut.content[2] = 2

\* The FilePatch sections of a parsed patch for one file, in patch order.
SectionsOf(patches, f) == SelectSeq(patches, LAMBDA fp : fp.filePath = f)

\* C24: the overlay of a file that the verification pass builds is the
\* content of the file with all hunks of all its FilePatch sections applied
\* one after another, each to the content the previous one left.
C24_OverlayAppliesEverySection ==
  pc = "analysed" =>
    \A f \in DiskFiles :
      HasOverride(fnOut.overrides, f) =>
        LET r == ApplyInSequence(DiskContent(f), SectionsOf(fnIn, f)) IN
          r.ok /\ OverrideOf(fnOut.overrides, f) = r.content

\* What holds of the overlay: it is the last section of the file applied to
\* the content on disk, with all hunks of that section.
C24_OverlayAppliesLastSection ==
  pc = "analysed" =>
    \A f \in DiskFiles :
      HasOverride(fnOut.overrides, f) =>
        LET sections == SectionsOf(fnIn, f)
            r == applyPatchToContent(DiskContent(f), sections[Len(sections)]) IN
          r.ok /\ OverrideOf(fnOut.overrides, f) = r.content

\* ------------------------------------------- duplicate blocks and the hash
\* Ten-line windows that differ in their last line only; the windows that
\* end in "a2" (line 10) and in "cp" (line 11) have the same hashString.
Window(last) == <<1, 2, 3, 4, 5, 6, 7, 8, 9, last>>
WindowEnds == {10, 11, 12}

\* Two files, each of two windows with a line between them, the first file
\* with or without a line in front.
CollisionInputs ==
  {<<NormalizedFile("a.ts", pre \o Window(x) \o <<13>> \o Window(y)),
     NormalizedFile("b.ts", Window(u) \o <<14>> \o Window(v))>> :
     pre \in {<<>>, <<15>>}, x \in WindowEnds, y \in WindowEnds,
     u \in WindowEnds, v \in WindowEnds}

CollisionsInit ==
  /\ PipelineAtRest
  /\ pc = "collisions"
  /\ fnIn \in CollisionInputs
  /\ fnOut = <<>>

CollisionsRun ==
  /\ pc = "collisions"
  /\ fnOut' = collectDuplicateBlocks(fnIn)
  /\ pc' = "collisionsDone"
  /\ UNCHANGED <<restVars, fnIn>>

CollisionsNext == CollisionsRun

SpecCollisions == CollisionsInit /\ [][CollisionsNext]_vars

\* C26: every reported block has at least two different occurrences
\* (file, startLine, endLine), each of the block's length, and the
\* normalized lines of every occurrence are the lines of the block one by
\* one, whatever other windows have the hash of the block; a text is
\* reported as one block.
C26_OccurrencesAreTheSameText ==
  pc = "collisionsDone" =>
    \A b \in fnOut :
      /\ Cardinality(b.occurrences) >= 2
      /\ \A o \in b.occurrences :
           /\ o.endLine - o.startLine + 1 = b.length
           /\ \A i \in 1..b.length :
                LinesOf(fnIn, o)[o.startLine + i - 1] = b.text[i]
      /\ \A c \in fnOut : c.text = b.text => c = b

\* Two blocks of different text are reported with the same hash.
C26_Witness ==
  /\ pc = "collisionsDone"
  /\ \E b, c \in fnOut :
       /\ b.text = Window(10)
       /\ c.text = Window(11)
       /\ HashOfBlock(b) = HashOfBlock(c)
       /\ HashOfBlock(b) = [hi |-> 14391, lo |-> 30845]
       /\ Cardinality(b.occurrences) = 2
       /\ Cardinality(c.occurrences) = 2

\* ---------------------------------------------------------- import resolution
\* The importing file src/a.ts and the files the index may hold beside it.
Importer == <<"src", "/", "a", ".ts">>

ResolveFiles ==
  {<<"src", "/", "x", ".ts">>,
   <<"src", "/", "x", ".tsx">>,
   <<"src", "/", "x", ".cjs">>,
   <<"src", "/", "x", "/", "index", ".ts">>,
   <<"src", "/", "x", "/", "index", ".cjs">>,
   <<"src", "/", "x", ".config", ".ts">>,
   <<"src", "/", "y", ".ts">>}

\* "./x", "./x.ts", "./x.config" and "./z"; without the leading "./" they
\* name packages.
ResolveSpecifiers ==
  [relative : BOOLEAN,
   target : {<<"x">>, <<"x", ".ts">>, <<"x", ".config">>, <<"z">>}]

ResolveInit ==
  /\ PipelineAtRest
  /\ pc = "resolve"
  /\ fnIn \in [specifier : ResolveSpecifiers, filePaths : SUBSET ResolveFiles]
  /\ fnOut = <<>>

ResolveRun ==
  /\ pc = "resolve"
  /\ fnOut' = [path |-> resolveImportPath(Importer, fnIn.specifier, fnIn.filePaths)]
  /\ pc' = "resolved"
  /\ UNCHANGED <<restVars, fnIn>>

ResolveNext == ResolveRun

SpecResolve == ResolveInit /\ [][ResolveNext]_vars

\* The candidates in the order of the claim: the joined path itself, the
\* path with each extension, the index file with each extension.
ClaimedCandidates(combined) ==
  <<combined>>
    \o [e \in 1..Len(JS_TS_EXTENSIONS) |-> combined \o <<JS_TS_EXTENSIONS[e]>>]
    \o [e \in 1..Len(JS_TS_EXTENSIONS) |->
          combined \o <<"/", "index", JS_TS_EXTENSIONS[e]>>]

\* C27: a specifier that does not start with "." resolves to null; a
\* relative one resolves to the first indexed path among the joined path,
\* the path with each source extension, and the index file with each
\* extension, in this order, and to null only when none is indexed.
C27_ResolvesInClaimedOrder ==
  pc = "resolved" =>
    fnOut.path =
      IF ~fnIn.specifier.relative THEN <<>>
      ELSE FirstIndexed(ClaimedCandidates(dirname(Importer) \o fnIn.specifier.target),
                        fnIn.filePaths)

\* What holds: a non-relative specifier resolves to null, and a resolved
\* path is an indexed file among the claimed candidates.
C27_ResolvesToIndexedCandidate ==
  pc = "resolved" =>
    /\ ~fnIn.specifier.relative => fnOut.path = <<>>
    /\ fnOut.path # <<>> =>
         /\ fnOut.path \in fnIn.filePaths
         /\ \E i \in 1..(1 + 2 * Len(JS_TS_EXTENSIONS)) :
              ClaimedCandidates(dirname(Importer) \o fnIn.specifier.target)[i] = fnOut.path

\* ------------------------------ parser, scope validator and applicator
\* "\ No newline at end of file"
NoNewline == L("nonl", "", 0)

\* One section for a.ts with one hunk, whose body holds any lines the
\* generator may write below a hunk header, checked against evidence on
\* a.ts and applied to the content of a.ts.
AgreeInputs ==
  {[diff |-> <<Old("a/a.ts"), New("b/a.ts"), HunkHdr(n)>> \o b,
    evidence |-> <<e>>] :
     n \in 1..MaxLine,
     b \in SeqsUpTo({Ctx, Add, Rem, Text, Blank, NoNewline}, MaxBody),
     e \in {Item("a.ts", 1, MaxLine), Item("a.ts", 2, 2)}}

AgreeInit ==
  /\ PipelineAtRest
  /\ pc = "agree"
  /\ fnIn \in AgreeInputs
  /\ fnOut = <<>>

\* The patch passed parseUnifiedDiff, the emptiness checks and
\* patchWithinEvidence.
PassedAllChecks(in) ==
  /\ ParseResponse(in.diff).ok
  /\ patchWithinEvidence(ParseResponse(in.diff).patches,
                         buildAllowedRanges([evidence |-> in.evidence])) = GuardOk

AgreeRejects ==
  /\ pc = "agree"
  /\ ~PassedAllChecks(fnIn)
  /\ fnOut' = [patches |-> parseUnifiedDiff(fnIn.diff).patches, error |-> ""]
  /\ pc' = "agreeRejected"
  /\ UNCHANGED <<restVars, fnIn>>

AgreeApplies ==
  /\ pc = "agree"
  /\ PassedAllChecks(fnIn)
  /\ LET patches == ParseResponse(fnIn.diff).patches
         r == applyPatchToContent(DiskContent("a.ts"), patches[1]) IN
       /\ r.ok
       /\ fnOut' = [patches |-> patches, error |-> ""]
  /\ pc' = "agreeApplied"
  /\ UNCHANGED <<restVars, fnIn>>

AgreeThrows ==
  /\ pc = "agree"
  /\ PassedAllChecks(fnIn)
  /\ LET patches == ParseResponse(fnIn.diff).patches
         r == applyPatchToContent(DiskContent("a.ts"), patches[1]) IN
       /\ ~r.ok
       /\ fnOut' = [patches |-> patches, error |-> r.error]
  /\ pc' = "agreeThrew"
  /\ UNCHANGED <<restVars, fnIn>>

AgreeNext == AgreeRejects \/ AgreeApplies \/ AgreeThrows

SpecAgree == AgreeInit /\ [][AgreeNext]_vars

\* C28: every line the parser stores in a hunk starts with " ", "+" or "-",
\* and a patch that passed the parser, the emptiness checks and the scope
\* validator is applied without an 'Unexpected diff line.' error.
C28_HunkLinesAgree ==
  /\ pc \in {"agreeRejected", "agreeApplied", "agreeThrew"} =>
       \A f \in 1..Len(fnOut.patches) :
         \A h \in 1..Len(fnOut.patches[f].hunks) :
           \A l \in 1..Len(fnOut.patches[f].hunks[h].lines) :
             LET line == fnOut.patches[f].hunks[h].lines[l] IN
               StartsSpace(line) \/ StartsPlus(line) \/ StartsMinus(line)
  /\ pc = "agreeThrew" => fnOut.error # "Unexpected diff line."

\* What holds: the "\ No newline" marker never reaches a hunk, and the one
\* error of the applicator on a validated patch whose hunk starts inside
\* the file is 'Unexpected diff line.', raised by a line the validator
\* passed over.
C28_OnlyTheMarkerIsDropped ==
  /\ pc \in {"agreeRejected", "agreeApplied", "agreeThrew"} =>
       \A f \in 1..Len(fnOut.patches) :
         \A h \in 1..Len(fnOut.patches[f].hunks) :
           \A l \in 1..Len(fnOut.patches[f].hunks[h].lines) :
             fnOut.patches[f].hunks[h].lines[l] # NoNewline
  /\ pc = "agreeThrew" =>
       /\ fnOut.error = "Unexpected diff line."
       /\ \E l \in 1..Len(fnOut.patches[1].hunks[1].lines) :
            fnOut.patches[1].hunks[1].lines[l] \in {Text, Blank}

\* C29: every reported cycle joins two different files; a file that imports
\* itself is not reported.
C29_CyclesJoinDifferentFiles ==
  pc = "cyclesDone" =>
    \A c \in 1..Len(fnOut) : fnOut[c].from # fnOut[c].to

\* C29 as the code has it: every reported cycle joins two files each of
\* which imports the other; they are the same file only when that file
\* imports itself.
C29_CyclesJoinMutualImporters ==
  pc = "cyclesDone" =>
    \A c \in 1..Len(fnOut) :
      /\ Imports(fnIn, fnOut[c].from, fnOut[c].to)
      /\ Imports(fnIn, fnOut[c].to, fnOut[c].from)
      /\ fnOut[c].from \in CyclePaths
      /\ fnOut[c].to \in CyclePaths

\* a.ts imports itself and is reported as a cycle, beside a cycle of two
\* files.
C29_Witness ==
  /\ pc = "cyclesDone"
  /\ Imports(fnIn, PathA, PathA)
  /\ \E c \in 1..Len(fnOut) : fnOut[c].from = PathA /\ fnOut[c].to = PathA
  /\ \E c \in 1..Len(fnOut) : fnOut[c].from # fnOut[c].to

\* ------------------------------------------------- the apply step's outcomes
\* git apply was run, so the fix branch had been created.
PatchWasTried == \E i \in 1..Len(gitLog) : gitLog[i].cmd = "apply"

\* The commands run after git apply.
AfterApply ==
  LET i == CHOOSE j \in 1..Len(gitLog) : gitLog[j].cmd = "apply" IN
  [j \in 1..(Len(gitLog) - i) |-> gitLog[i + j].cmd]

\* C30: a 'failed' outcome after the fix branch was created leaves the
\* repository on the starting branch with the fix branch deleted; only
\* 'applied' leaves it on the fix branch with the patch applied.
C30_FailedIsRolledBack ==
  pc = "applied" =>
    /\ (applyResult.status = "failed" /\ PatchWasTried)
         => (~repo.onFixBranch /\ ~repo.fixBranchExists)
    /\ (repo.onFixBranch /\ repo.applied # <<>>) => applyResult.status = "applied"

\* C30 as the code has it: when the patch does not apply, the starting
\* branch is checked out and then the fix branch deleted, errors of the two
\* commands ignored, and the patch is not in the working tree; when the
\* tests fail nothing is rolled back, and the repository stays on the fix
\* branch with the patch applied, as it does when the outcome is 'applied'.
C30_RollbackOnlyWhenPatchFails ==
  pc = "applied" =>
    /\ (applyResult.status = "failed" /\ PatchWasTried /\ ~applyResult.testsRun) =>
         /\ AfterApply \in {<<"checkout", "branch -D">>, <<"checkout">>}
         /\ repo.applied = <<>>
         /\ ~repo.fixBranchExists => ~repo.onFixBranch
         /\ AfterApply = <<"checkout">> => repo.fixBranchExists
    /\ (applyResult.status = "failed" /\ PatchWasTried /\ applyResult.testsRun) =>
         /\ AfterApply = <<>>
         /\ repo.onFixBranch
         /\ repo.fixBranchExists
         /\ repo.applied = JoinPatches(PatchesToApply(suggestions))
    /\ repo.applied # <<>> =>
         /\ repo.onFixBranch
         /\ applyResult.testsRun
         /\ applyResult.status \in {"applied", "failed"}
    /\ applyResult.status = "applied" =>
         /\ repo.onFixBranch
         /\ repo.applied = JoinPatches(PatchesToApply(suggestions))

\* The tests failed: the outcome is 'failed' and the patch is in the
\* working tree of the fix branch.
C30_Witness ==
  /\ pc = "applied"
  /\ applyResult.status = "failed"
  /\ applyResult.testsRun
  /\ repo.onFixBranch
  /\ repo.applied # <<>>
  /\ AfterApply = <<>>
====
